---------------------------- MODULE Spec2Model ----------------------------
(***************************************************************************)
(* The QueryNode control-plane task subsystem (internal/querynode/task.go).*)
(*                                                                         *)
(* Three specifications share the module:                                  *)
(*   Spec       one task queue of a QueryNode: every step dequeues one     *)
(*              task and runs its Execute against the node's registries;   *)
(*   SpecQueue  the TaskQueue and its worker (enqueue, the three phases,   *)
(*              Notify / WaitToFinish);                                    *)
(*   SpecID     OnEnqueue and Timestamp of the task variants.              *)
(*                                                                         *)
(* The replicas, FlowGraphService, TSafeReplica, QueryShardService,        *)
(* ShardClusterService, the segment loader, funcutil and the TaskQueue     *)
(* are not part of task.go; they are modelled from the specification.      *)
(***************************************************************************)
EXTENDS Integers, Sequences, FiniteSets, TLC

VARIABLES
    node,      \* the registries of the QueryNode (a record, see EmptyNode)
    pre,       \* the registries as they were when the last task was dequeued
    last,      \* the last task: its kind, request, collaborator outcomes, result
    trip,      \* the open WatchDm / ReleaseCollection round trip, if any
    ntasks,    \* tasks run so far
    race,      \* SpecRace: the positions of two tasks that run side by side
    queue,     \* SpecQueue: the pending tasks, in enqueue order
    tasks,     \* SpecQueue: per task, its phase results and completion channel
    worker,    \* SpecQueue: the worker's position (idle, or a task and a phase)
    notified,  \* SpecQueue: the task ids in the order their outcome was posted
    enq,       \* SpecQueue: the task ids in enqueue order
    idreq,     \* SpecID: the request of the task under OnEnqueue / Timestamp
    idtask     \* SpecID: the task's id and the value Timestamp returned

vars == <<node, pre, last, trip, ntasks, race, queue, tasks, worker, notified, enq, idreq, idtask>>
nodeVars == <<node, pre, last, trip, ntasks, race>>
queueVars == <<queue, tasks, worker, notified, enq>>
idVars == <<idreq, idtask>>

----------------------------------------------------------------------------
(* Bounds of the model.                                                    *)

\* tasks one run of Spec executes
MaxTasks == 3
\* tasks one run of SpecQueue enqueues
MaxEnqueue == 2
\* tasks one run of SpecCancel executes
MaxCancelTasks == 2
\* tasks one run of SpecStart executes
MaxStartTasks == 2
\* tasks one run of SpecRelease executes before its last release
MaxReleaseTasks == 2
\* WatchDmChannels executions of SpecExcluded
MaxExcludedTasks == 1
\* rand.Int63n(n) yields any integer of 0..n-1; the model draws it from 0..MaxRand
MaxRand == 2

----------------------------------------------------------------------------
(* Pointers: a Go pointer is Nil or points to one value.                   *)

Nil == <<>>
Ptr(x) == <<x>>
Deref(p) == p[1]

SeqToSet(s) == {s[i] : i \in 1..Len(s)}

RECURSIVE SetToSeq(_)
SetToSeq(S) ==
    IF S = {} THEN <<>>
    ELSE LET x == CHOOSE y \in S : TRUE IN <<x>> \o SetToSeq(S \ {x})

RECURSIVE Flatten(_)
Flatten(ss) == IF ss = <<>> THEN <<>> ELSE Head(ss) \o Flatten(Tail(ss))

----------------------------------------------------------------------------
(* Channel names.  A virtual channel name is                               *)
(*   <root>_<physical index>_<collection id>v<shard index>,                *)
(* modelled as the tuple <<root, physical index, collection id, shard>>;   *)
(* the physical channel is the name with the per-virtual suffix stripped.  *)

RootCoordDml == "dml"
RootCoordDelta == "delta"

VChan(root, p, c, i) == <<root, p, c, i>>

\* funcutil.ToPhysicalChannel: strip the per-virtual suffix
ToPhysicalChannel(v) == <<v[1], v[2]>>

\* funcutil.ConvertChannelName(ch, from, to): replace the root prefix; an
\* error when the name does not hold the prefix
ConvertChannelNameOK(ch, from) == ch[1] = from
ConvertChannelName(ch, from, to) == <<to, ch[2], ch[3], ch[4]>>

\* funcutil.GenChannelSubName(prefix, collectionID, nodeID)
GenChannelSubName(collectionID) == <<"queryNode", collectionID, "node">>

----------------------------------------------------------------------------
(* Load types and errors.                                                  *)

LoadType_UnKnownType == "UnKnownType"
LoadType_LoadCollection == "LoadCollection"
LoadType_LoadPartition == "LoadPartition"

OK == "ok"
ErrIllegalChannelLength == "get physical channels failed, illegal channel length"
ErrCannotFindCollection == "cannot find collection"
ErrLoadSegment == "load segment failed"
ErrAddFlowGraph == "add flow graph failed"
ErrConsume == "as consumer failed"
ErrSeek == "seek failed"
ErrLoadDelete == "from dml cp load delete failed"
ErrReleaseCollection == "release collection failed"
ErrRemoveCollection == "remove collection failed"
ErrReleasePartitions == "release partitions failed"
ErrAddPartition == "add partition failed"
\* not an error value: the goroutine dereferenced a nil pointer
Panic == "panic"

----------------------------------------------------------------------------
(* The collection record each replica holds per collection id.            *)

newCollection(collectionID) ==
    [ id |-> collectionID,
      vChannels |-> <<>>, pChannels |-> <<>>,
      vDeltaChannels |-> <<>>, pDeltaChannels |-> <<>>,
      loadType |-> LoadType_UnKnownType,
      releaseTime |-> 0 ]

\* append the channels that the list does not hold yet, in order
RECURSIVE addChannels(_, _)
addChannels(have, channels) ==
    IF channels = <<>> THEN have
    ELSE IF Head(channels) \in SeqToSet(have)
         THEN addChannels(have, Tail(channels))
         ELSE addChannels(Append(have, Head(channels)), Tail(channels))

addVChannels(col, channels) == [col EXCEPT !.vChannels = addChannels(@, channels)]
addPChannels(col, channels) == [col EXCEPT !.pChannels = addChannels(@, channels)]
addVDeltaChannels(col, channels) ==
    [col EXCEPT !.vDeltaChannels = addChannels(@, channels)]
addPDeltaChannels(col, channels) ==
    [col EXCEPT !.pDeltaChannels = addChannels(@, channels)]
setLoadType(col, lType) == [col EXCEPT !.loadType = lType]
setReleaseTime(col, t) == [col EXCEPT !.releaseTime = t]
getVChannels(col) == col.vChannels
getVDeltaChannels(col) == col.vDeltaChannels

----------------------------------------------------------------------------
(* ReplicaRegistry: the collection / partition / segment catalog, the      *)
(* excluded-segment sets and the query lock of one replica.                *)

CollectionIDs == {1, 2}

EmptyReplica ==
    [ col |-> <<>>,                                \* collection id -> collection
      part |-> {},                                 \* <<collection id, partition id>>
      seg |-> {},                                  \* loaded segments
      excl |-> [c \in CollectionIDs |-> {}],       \* excluded segment infos
      lock |-> FALSE ]                             \* the query lock is held

hasCollection(r, id) == id \in DOMAIN r.col
getCollectionByID(r, id) == r.col[id]

\* idempotent add by id
addCollection(r, id) ==
    IF hasCollection(r, id) THEN r
    ELSE [r EXCEPT !.col = [c \in DOMAIN r.col \cup {id} |->
                               IF c = id THEN newCollection(id) ELSE r.col[c]]]

\* the collection handle is a pointer: a write through it changes the entry
\* the replica holds, if the replica still holds that collection
updateCollection(r, col) ==
    IF hasCollection(r, col.id) THEN [r EXCEPT !.col[col.id] = col] ELSE r

\* an error when the collection is missing; idempotent otherwise
addPartitionOK(r, collectionID, partitionID) == hasCollection(r, collectionID)
addPartition(r, collectionID, partitionID) ==
    IF addPartitionOK(r, collectionID, partitionID)
    THEN [r EXCEPT !.part = @ \cup {<<collectionID, partitionID>>}]
    ELSE r

hasPartition(r, partitionID) == \E p \in r.part : p[2] = partitionID
removePartition(r, partitionID) ==
    [r EXCEPT !.part = {p \in @ : p[2] # partitionID},
              !.seg = {s \in @ : s.PartitionID # partitionID}]

\* the collection goes with its partitions and segments
removeCollection(r, collectionID) ==
    [r EXCEPT !.col = [c \in DOMAIN r.col \ {collectionID} |-> r.col[c]],
              !.part = {p \in @ : p[1] # collectionID},
              !.seg = {s \in @ : s.CollectionID # collectionID}]

addExcludedSegments(r, collectionID, infos) ==
    [r EXCEPT !.excl[collectionID] = @ \cup SeqToSet(infos)]
removeExcludedSegments(r, collectionID) ==
    [r EXCEPT !.excl[collectionID] = {}]

\* removing a segment the replica does not hold is a no-op
removeSegment(r, segmentID) == [r EXCEPT !.seg = {s \in @ : s.ID # segmentID}]

RECURSIVE removeSegments(_, _)
removeSegments(r, ids) ==
    IF ids = <<>> THEN r ELSE removeSegments(removeSegment(r, Head(ids)), Tail(ids))

queryLock(r) == [r EXCEPT !.lock = TRUE]
queryUnlock(r) == [r EXCEPT !.lock = FALSE]

\* SegmentLoader.loadSegment: the segments of the request are added to the
\* replica of the given type, all or none
loadSegment(r, infos) ==
    [r EXCEPT !.seg = @ \cup
        {[ID |-> i.SegmentID, CollectionID |-> i.CollectionID,
          PartitionID |-> i.PartitionID] : i \in SeqToSet(infos)}]

----------------------------------------------------------------------------
(* FlowGraphService (dataSyncService): the DML and the delta flow-graphs,  *)
(* per virtual channel.                                                    *)

newQueryNodeFlowGraph(collectionID, channel) ==
    [ collectionID |-> collectionID, channel |-> channel,
      consumer |-> Nil,        \* the bus call that attached the graph
      started |-> 0,           \* calls of Start
      closed |-> FALSE ]

\* a flow-graph is created and registered for every channel of the list
addFlowGraphs(reg, collectionID, channels) ==
    [c \in DOMAIN reg \cup SeqToSet(channels) |->
        IF c \in SeqToSet(channels) THEN newQueryNodeFlowGraph(collectionID, c)
        ELSE reg[c]]

removeFlowGraphs(reg, channels) == [c \in DOMAIN reg \ channels |-> reg[c]]

\* the calls on the graphs the registry holds under the given channels
attachFlowGraphs(reg, calls) ==
    [c \in DOMAIN reg |->
        IF \E k \in calls : k.channel = c
        THEN [reg[c] EXCEPT !.consumer =
                 Ptr(CHOOSE k \in calls : k.channel = c)]
        ELSE reg[c]]

closeFlowGraphs(reg, channels) ==
    [c \in DOMAIN reg |-> IF c \in channels THEN [reg[c] EXCEPT !.closed = TRUE]
                          ELSE reg[c]]

startFlowGraphs(reg, channels) ==
    [c \in DOMAIN reg |-> IF c \in channels THEN [reg[c] EXCEPT !.started = @ + 1]
                          ELSE reg[c]]

----------------------------------------------------------------------------
(* TSafeReplica, QueryShardService, ShardClusterService.                   *)

addTSafe(ts, channel) == ts \cup {channel}
removeTSafe(ts, channel) == ts \ {channel}

RECURSIVE addTSafes(_, _)
addTSafes(ts, channels) ==
    IF channels = <<>> THEN ts
    ELSE addTSafes(addTSafe(ts, Head(channels)), Tail(channels))

RECURSIVE removeTSafes(_, _)
removeTSafes(ts, channels) ==
    IF channels = <<>> THEN ts
    ELSE removeTSafes(removeTSafe(ts, Head(channels)), Tail(channels))

hasQueryShard(qs, dmlChannel) == dmlChannel \in DOMAIN qs
addQueryShard(qs, collectionID, dmlChannel, replicaID) ==
    [c \in DOMAIN qs \cup {dmlChannel} |->
        IF c = dmlChannel
        THEN [collectionID |-> collectionID, replicaID |-> replicaID,
              dmlTSafe |-> FALSE, deltaTSafe |-> FALSE]
        ELSE qs[c]]
watchDMLTSafe(qs, dmlChannel) == [qs EXCEPT ![dmlChannel].dmlTSafe = TRUE]
watchDeltaTSafe(qs, dmlChannel) == [qs EXCEPT ![dmlChannel].deltaTSafe = TRUE]
queryShardReleaseCollection(qs, collectionID) ==
    [c \in {d \in DOMAIN qs : qs[d].collectionID # collectionID} |-> qs[c]]

addShardCluster(sc, collectionID, replicaID, vchannel) ==
    sc \cup {<<collectionID, replicaID, vchannel>>}

----------------------------------------------------------------------------
(* The QueryNode.                                                          *)

EmptyNode ==
    [ streaming |-> EmptyReplica,
      historical |-> EmptyReplica,
      dmlFG |-> <<>>,            \* dml vchannel -> flow-graph
      deltaFG |-> <<>>,          \* delta vchannel -> flow-graph
      tSafe |-> {},              \* channels with a tSafe entry
      queryShards |-> <<>>,      \* dml vchannel -> query shard
      shardClusters |-> {},      \* <<collection id, replica id, vchannel>>
      queryChannels |-> <<>>,    \* collection id -> query channel
      crashed |-> FALSE ]        \* a task panicked: the process is gone

\* what one task did, for the claims that speak of the task's own steps
EmptyLog ==
    [ created |-> {},     \* channels the task created a flow-graph for
      attach |-> {},      \* the bus calls made on the task's flow-graphs
      closed |-> {},      \* channels whose flow-graph the task closed
      removed |-> {},     \* channels the task removed from FlowGraphService
      started |-> {},     \* channels whose flow-graph the task started
      loaded |-> {},      \* ids of the growing segments the task loaded
      replay |-> <<>>,    \* the FromDmlCPLoadDelete calls, in order
      excluded |-> <<>>,  \* the infos handed to addExcludedSegments, in order
      exclAtStart |-> {},  \* the excluded segments when the flow-graphs started
      atStart |-> Nil ]    \* the node as the Start loop found it

Result(n, err, log) == [node |-> n, err |-> err, log |-> log]

\* the channels whose tSafe watch returned an error, when env names them
WatchFails(env) == IF "nowatch" \in DOMAIN env THEN env.nowatch ELSE {}

----------------------------------------------------------------------------
(* watchDmChannelsTask.Execute, stage by stage.                            *)

\* a load type taken from LoadMeta as it is
wdmLoadType_OfLoadMeta(req) == req.LoadMeta.LoadType

\* the load type the task records (lines 193-201)
wdmLoadType(req) ==
    IF req.LoadMeta.LoadType = LoadType_UnKnownType
    THEN IF Len(req.PartitionIDs) # 0 THEN LoadType_LoadPartition
         ELSE LoadType_LoadCollection
    ELSE req.LoadMeta.LoadType

\* vChannels, pChannels and the map VPChannels (lines 204-213)
wdmVChannels(req) == [i \in 1..Len(req.Infos) |-> req.Infos[i].ChannelName]
wdmPChannels(req) ==
    [i \in 1..Len(req.Infos) |-> ToPhysicalChannel(req.Infos[i].ChannelName)]
wdmVPChannels(req) ==
    [v \in SeqToSet(wdmVChannels(req)) |-> ToPhysicalChannel(v)]

\* a check that lets every channel list through
wdmChannelsLegal_Always(req) == TRUE

\* the check of line 215: the map holds one key per listed channel
wdmChannelsLegal(req) ==
    Cardinality(DOMAIN wdmVPChannels(req)) = Len(wdmVChannels(req))

\* an init that adds the collection to the streaming replica alone
wdmInitMeta_StreamingOnly(n, req) ==
    [n EXCEPT !.streaming = addCollection(@, req.CollectionID),
              !.shardClusters = @ \cup
                  {<<req.CollectionID, req.ReplicaID, v>> :
                      v \in SeqToSet(wdmVChannels(req))}]

\* init collection meta and add the shard clusters (lines 229-235)
wdmInitMeta(n, req) ==
    [n EXCEPT !.streaming = addCollection(@, req.CollectionID),
              !.historical = addCollection(@, req.CollectionID),
              !.shardClusters = @ \cup
                  {<<req.CollectionID, req.ReplicaID, v>> :
                      v \in SeqToSet(wdmVChannels(req))}]

\* the unflushed segments that have binlogs, as load infos (lines 238-256)
wdmSegmentLoadInfo(ufInfo) ==
    [SegmentID |-> ufInfo.ID, PartitionID |-> ufInfo.PartitionID,
     CollectionID |-> ufInfo.CollectionID, BinlogPaths |-> ufInfo.Binlogs]

wdmUnFlushedSegments(req) ==
    LET HasBinlogs(ufInfo) == ufInfo.Binlogs > 0
        OfInfo(info) ==
            LET l == SelectSeq(info.UnflushedSegments, HasBinlogs)
            IN [j \in 1..Len(l) |-> wdmSegmentLoadInfo(l[j])]
    IN Flatten([i \in 1..Len(req.Infos) |-> OfInfo(req.Infos[i])])

wdmUnFlushedSegmentIDs(req) ==
    LET l == wdmUnFlushedSegments(req) IN [j \in 1..Len(l) |-> l[j].SegmentID]

\* update partition info from unFlushedSegments and loadMeta (lines 269-276);
\* the errors of addPartition are dropped
RECURSIVE addPartitions(_, _, _)
addPartitions(r, collectionID, partitionIDs) ==
    IF partitionIDs = <<>> THEN r
    ELSE addPartitions(addPartition(r, collectionID, Head(partitionIDs)),
                       collectionID, Tail(partitionIDs))

wdmAddPartitions(n, req) ==
    LET l == wdmUnFlushedSegments(req)
        pids == [j \in 1..Len(l) |-> l[j].PartitionID] \o req.LoadMeta.PartitionIDs
    IN [n EXCEPT !.streaming = addPartitions(@, req.CollectionID, pids),
                 !.historical = addPartitions(@, req.CollectionID, pids)]

\* loader.loadSegment(req, segmentTypeGrowing) returned nil (line 282)
wdmLoadGrowing(n, req) ==
    [n EXCEPT !.streaming = loadSegment(@, wdmUnFlushedSegments(req))]

\* the deferred removal of the growing segments (lines 293-299)
wdmRemoveGrowing(n, req) ==
    [n EXCEPT !.streaming = removeSegments(@, wdmUnFlushedSegmentIDs(req))]

\* group channels by seeking or consuming (lines 304-313)
wdmSeeks(info) == info.SeekPosition # Nil /\ Len(Deref(info.SeekPosition).MsgID) # 0

wdmChannel2SeekPosition(req) ==
    LET seek == {i \in 1..Len(req.Infos) : wdmSeeks(req.Infos[i])}
    IN [v \in {req.Infos[i].ChannelName : i \in seek} |->
          LET i == CHOOSE j \in seek :
                     /\ req.Infos[j].ChannelName = v
                     /\ \A k \in seek : req.Infos[k].ChannelName = v => k <= j
          IN [Deref(req.Infos[i].SeekPosition) EXCEPT
                 !.MsgGroup = GenChannelSubName(req.CollectionID)]]

wdmChannel2AsConsumerPosition(req) ==
    LET cons == {i \in 1..Len(req.Infos) : ~wdmSeeks(req.Infos[i])}
    IN [v \in {req.Infos[i].ChannelName : i \in cons} |->
          LET i == CHOOSE j \in cons :
                     /\ req.Infos[j].ChannelName = v
                     /\ \A k \in cons : req.Infos[k].ChannelName = v => k <= j
          IN req.Infos[i].SeekPosition]

\* the three lists handed to addExcludedSegments (lines 316-370)
wdmUnFlushedCheckPointInfos(req) ==
    Flatten([i \in 1..Len(req.Infos) |-> req.Infos[i].UnflushedSegments])

wdmLaterThanSeek(req, segments) ==
    LET c2s == wdmChannel2SeekPosition(req)
        positions == SetToSeq(DOMAIN c2s)
        Hits(seg) ==
            Flatten([k \in 1..Len(positions) |->
                IF /\ seg.DmlPosition # Nil
                   /\ Deref(seg.DmlPosition).ChannelName = c2s[positions[k]].ChannelName
                   /\ Deref(seg.DmlPosition).Timestamp > c2s[positions[k]].Timestamp
                THEN <<seg>> ELSE <<>>])
    IN Flatten([j \in 1..Len(segments) |-> Hits(segments[j])])

wdmFlushedCheckPointInfos(req) ==
    Flatten([i \in 1..Len(req.Infos) |->
                wdmLaterThanSeek(req, req.Infos[i].FlushedSegments)])

wdmDroppedCheckPointInfos(req) ==
    Flatten([i \in 1..Len(req.Infos) |->
                wdmLaterThanSeek(req, req.Infos[i].DroppedSegments)])

\* line 359 reads DmlPosition.ChannelName of a dropped segment without a nil check
wdmDroppedPanics(req) ==
    /\ DOMAIN wdmChannel2SeekPosition(req) # {}
    /\ \E i \in 1..Len(req.Infos) :
          \E j \in 1..Len(req.Infos[i].DroppedSegments) :
              req.Infos[i].DroppedSegments[j].DmlPosition = Nil

wdmAddExcluded(n, req) ==
    [n EXCEPT !.streaming =
        addExcludedSegments(
          addExcludedSegments(
            addExcludedSegments(@, req.CollectionID, wdmUnFlushedCheckPointInfos(req)),
            req.CollectionID, wdmFlushedCheckPointInfos(req)),
          req.CollectionID, wdmDroppedCheckPointInfos(req))]

\* a creation of the flow-graphs that creates their tSafe entries with them
wdmAddFlowGraphs_WithTSafe(n, req) ==
    [n EXCEPT !.dmlFG = addFlowGraphs(@, req.CollectionID, wdmVChannels(req)),
              !.tSafe = addTSafes(@, wdmVChannels(req))]

\* add flow graph (line 373), the call returned no error
wdmAddFlowGraphs(n, req) ==
    [n EXCEPT !.dmlFG = addFlowGraphs(@, req.CollectionID, wdmVChannels(req))]

\* a loop that attaches every channel from latest
wdmAttachCall_AlwaysConsume(req, channel) ==
    [channel |-> channel, call |-> "consumeFlowGraph",
     pchannel |-> wdmVPChannels(req)[channel],
     subName |-> GenChannelSubName(req.CollectionID),
     position |-> Nil]

\* the bus call the loop of lines 381-401 makes for a channel
wdmAttachCall(req, channel) ==
    IF channel \in DOMAIN wdmChannel2AsConsumerPosition(req)
    THEN [channel |-> channel, call |-> "consumeFlowGraph",
          pchannel |-> wdmVPChannels(req)[channel],
          subName |-> GenChannelSubName(req.CollectionID),
          position |-> Nil]
    ELSE [channel |-> channel, call |-> "seekQueryNodeFlowGraph",
          pchannel |-> wdmVPChannels(req)[channel],
          subName |-> GenChannelSubName(req.CollectionID),
          position |-> Ptr([wdmChannel2SeekPosition(req)[channel] EXCEPT
                               !.MsgGroup = GenChannelSubName(req.CollectionID),
                               !.ChannelName = wdmVPChannels(req)[channel]])]

wdmAttachErr(req, channel) ==
    IF channel \in DOMAIN wdmChannel2AsConsumerPosition(req) THEN ErrConsume
    ELSE ErrSeek

wdmAttach(n, req, channels) ==
    [n EXCEPT !.dmlFG =
        attachFlowGraphs(@, {wdmAttachCall(req, c) : c \in channels})]

\* a rollback that closes and removes nothing
wdmRollback_Skipped(n, req) == n

\* a close loop that closes no flow-graph
wdmCloseCreated_Nothing(n, req) == n

\* fg.flowGraph.Close() on every created flow-graph (lines 405-407)
wdmCloseCreated(n, req) ==
    [n EXCEPT !.dmlFG = closeFlowGraphs(@, SeqToSet(wdmVChannels(req)))]

\* the created flow-graphs the registry holds as closed
wdmClosed(n, req) ==
    {c \in SeqToSet(wdmVChannels(req)) \cap DOMAIN n.dmlFG : n.dmlFG[c].closed}

\* close every created flow-graph and remove them (lines 403-414)
wdmRollback(n, req) ==
    LET gcChannels == SeqToSet(wdmVChannels(req))
    IN [wdmCloseCreated(n, req) EXCEPT !.dmlFG = removeFlowGraphs(@, gcChannels)]

\* lines 418-424, through the handles sCol and hCol
wdmInitReplica(n, req) ==
    LET Upd(col) == setLoadType(addPChannels(addVChannels(col, wdmVChannels(req)),
                                             wdmPChannels(req)),
                                wdmLoadType(req))
    IN [n EXCEPT !.streaming.col[req.CollectionID] = Upd(@),
                 !.historical.col[req.CollectionID] = Upd(@)]

\* create tSafe (lines 428-430)
wdmCreateTSafe(n, req) == [n EXCEPT !.tSafe = addTSafes(@, wdmVChannels(req))]

\* add tsafe watch in query shard (lines 433-447); an error of
\* watchDMLTSafe is logged and the loop goes on (lines 443-446)
RECURSIVE wdmWatchShards(_, _, _, _, _)
wdmWatchShards(qs, collectionID, replicaID, channels, failing) ==
    IF channels = <<>> THEN qs
    ELSE LET dmlChannel == Head(channels)
             qs1 == IF ~hasQueryShard(qs, dmlChannel)
                    THEN addQueryShard(qs, collectionID, dmlChannel, replicaID)
                    ELSE qs
             qs2 == IF dmlChannel \in failing THEN qs1
                    ELSE watchDMLTSafe(qs1, dmlChannel)
         IN wdmWatchShards(qs2, collectionID, replicaID, Tail(channels), failing)

wdmQueryShards(n, req, env) ==
    [n EXCEPT !.queryShards =
        wdmWatchShards(@, req.CollectionID, req.ReplicaID, wdmVChannels(req),
                       WatchFails(env))]

\* a start loop that clears the excluded segments once the graphs run
wdmStart_ClearsExcluded(n, req) ==
    [n EXCEPT !.dmlFG = startFlowGraphs(@, SeqToSet(wdmVChannels(req))),
              !.streaming = removeExcludedSegments(@, req.CollectionID)]

\* start flow graphs (lines 450-452)
wdmStart(n, req) ==
    [n EXCEPT !.dmlFG = startFlowGraphs(@, SeqToSet(wdmVChannels(req)))]


\* Execute (lines 189-456).  env names what the collaborators answered:
\* env.fail is the call that returned an error ("none" when all succeeded),
\* env.at the channel whose bus call failed and env.before the channels the
\* loop over the map channel2FlowGraph had attached before it.
watchDmChannelsTask_Execute(n, req, env) ==
    IF ~wdmChannelsLegal(req) THEN Result(n, ErrIllegalChannelLength, EmptyLog)
    ELSE
    LET n1 == wdmInitMeta(n, req) IN
    IF req.Base = Nil THEN Result([n1 EXCEPT !.crashed = TRUE], Panic, EmptyLog)
    ELSE
    LET n2 == wdmAddPartitions(n1, req) IN
    IF env.fail = "loadSegment" THEN Result(n2, ErrLoadSegment, EmptyLog)
    ELSE
    LET n3 == wdmLoadGrowing(n2, req)
        log3 == [EmptyLog EXCEPT !.loaded = SeqToSet(wdmUnFlushedSegmentIDs(req))]
    IN
    IF wdmDroppedPanics(req)
    THEN Result([n3 EXCEPT !.crashed = TRUE,
                           !.streaming = addExcludedSegments(
                               addExcludedSegments(@, req.CollectionID,
                                   wdmUnFlushedCheckPointInfos(req)),
                               req.CollectionID, wdmFlushedCheckPointInfos(req))],
                Panic, log3)
    ELSE
    LET n4 == wdmAddExcluded(n3, req)
        log4 == [log3 EXCEPT !.excluded = <<wdmUnFlushedCheckPointInfos(req),
                                            wdmFlushedCheckPointInfos(req),
                                            wdmDroppedCheckPointInfos(req)>>]
    IN
    IF env.fail = "addFlowGraphs"
    THEN Result(wdmRemoveGrowing(n4, req), ErrAddFlowGraph, log4)
    ELSE
    LET all == SeqToSet(wdmVChannels(req))
        n5 == wdmAddFlowGraphs(n4, req)
        log5 == [log4 EXCEPT !.created = all]
    IN
    IF env.fail = "attach"
    THEN LET n6 == wdmAttach(n5, req, env.before)
             n7 == wdmRollback(n6, req)
             n8 == wdmRemoveGrowing(n7, req)
         IN Result(n8, wdmAttachErr(req, env.at),
                   [log5 EXCEPT
                      !.attach = {wdmAttachCall(req, c) : c \in env.before \cup {env.at}},
                      !.closed = wdmClosed(wdmCloseCreated(n6, req), req),
                      !.removed = DOMAIN n5.dmlFG \ DOMAIN n7.dmlFG])
    ELSE
    LET n6 == wdmAttach(n5, req, all)
        n7 == wdmInitReplica(n6, req)
        n8 == wdmCreateTSafe(n7, req)
        n9 == wdmQueryShards(n8, req, env)
        n10 == wdmStart(n9, req)
    IN Result(n10, OK,
              [log5 EXCEPT !.attach = {wdmAttachCall(req, c) : c \in all},
                           !.started = {c \in all : n10.dmlFG[c].started
                                                       > n9.dmlFG[c].started},
                           !.exclAtStart = n9.streaming.excl[req.CollectionID],
                           !.atStart = Ptr(n9)])

----------------------------------------------------------------------------
(* watchDeltaChannelsTask.Execute.                                         *)

wdeVDeltaChannels(req) == [i \in 1..Len(req.Infos) |-> req.Infos[i].ChannelName]
wdePDeltaChannels(req) ==
    [i \in 1..Len(req.Infos) |-> ToPhysicalChannel(req.Infos[i].ChannelName)]
wdeVPDeltaChannels(req) ==
    [v \in SeqToSet(wdeVDeltaChannels(req)) |-> ToPhysicalChannel(v)]

\* the last info of a channel wins in the map (lines 491-499)
wdeVChannel2SeekPosition(req) ==
    [v \in SeqToSet(wdeVDeltaChannels(req)) |->
        LET i == CHOOSE j \in 1..Len(req.Infos) :
                   /\ req.Infos[j].ChannelName = v
                   /\ \A k \in 1..Len(req.Infos) :
                          req.Infos[k].ChannelName = v => k <= j
        IN req.Infos[i].SeekPosition]

\* the check of line 505
wdeChannelsLegal(req) ==
    Cardinality(DOMAIN wdeVPDeltaChannels(req)) = Len(wdeVDeltaChannels(req))

\* a check that finds every collection
wdeHasCollection_Always(n, req) == TRUE

\* lines 512-526
wdeHasCollection(n, req) ==
    /\ hasCollection(n.historical, req.CollectionID)
    /\ hasCollection(n.streaming, req.CollectionID)

\* line 528, the call returned no error
wdeAddFlowGraphs(n, req) ==
    [n EXCEPT !.deltaFG = addFlowGraphs(@, req.CollectionID, wdeVDeltaChannels(req))]

\* line 537
wdeAttachCall(req, channel) ==
    [channel |-> channel, call |-> "consumeFlowGraphFromLatest",
     pchannel |-> wdeVPDeltaChannels(req)[channel],
     subName |-> GenChannelSubName(req.CollectionID),
     position |-> Nil]

wdeAttach(n, req, channels) ==
    [n EXCEPT !.deltaFG =
        attachFlowGraphs(@, {wdeAttachCall(req, c) : c \in channels})]

\* a replay that is handed no position
wdeReplayCall_NoPosition(req, channel) ==
    [collectionID |-> req.CollectionID, channel |-> channel, position |-> Nil]

\* line 542
wdeReplayCall(req, channel) ==
    [collectionID |-> req.CollectionID, channel |-> channel,
     position |-> wdeVChannel2SeekPosition(req)[channel]]

\* lines 548-559
wdeRollback(n, req) ==
    LET gcChannels == SeqToSet(wdeVDeltaChannels(req))
    IN [n EXCEPT !.deltaFG =
           removeFlowGraphs(closeFlowGraphs(@, gcChannels), gcChannels)]

\* set collection replica (lines 564-568)
wdeInitReplica(n, req) ==
    LET Upd(col) == addPDeltaChannels(addVDeltaChannels(col, wdeVDeltaChannels(req)),
                                      wdePDeltaChannels(req))
    IN [n EXCEPT !.historical.col[req.CollectionID] = Upd(@),
                 !.streaming.col[req.CollectionID] = Upd(@)]

\* create tSafe (lines 571-573)
wdeCreateTSafe(n, req) == [n EXCEPT !.tSafe = addTSafes(@, wdeVDeltaChannels(req))]

\* lines 576-595: the shard of the paired dml channel watches the delta
\* tSafe; an error of watchDeltaTSafe is logged and the loop goes on
RECURSIVE wdeWatchShards(_, _, _, _, _)
wdeWatchShards(qs, collectionID, replicaID, channels, failing) ==
    IF channels = <<>> THEN qs
    ELSE IF ~ConvertChannelNameOK(Head(channels), RootCoordDelta)
    THEN wdeWatchShards(qs, collectionID, replicaID, Tail(channels), failing)
    ELSE LET dmlChannel == ConvertChannelName(Head(channels), RootCoordDelta,
                                              RootCoordDml)
             qs1 == IF ~hasQueryShard(qs, dmlChannel)
                    THEN addQueryShard(qs, collectionID, dmlChannel, replicaID)
                    ELSE qs
             qs2 == IF Head(channels) \in failing THEN qs1
                    ELSE watchDeltaTSafe(qs1, dmlChannel)
         IN wdeWatchShards(qs2, collectionID, replicaID, Tail(channels), failing)

wdeQueryShards(n, req, env) ==
    [n EXCEPT !.queryShards =
        wdeWatchShards(@, req.CollectionID, req.ReplicaID, wdeVDeltaChannels(req),
                       WatchFails(env))]

\* a start loop that starts every flow-graph twice
wdeStart_Twice(n, req) ==
    [n EXCEPT !.deltaFG =
        startFlowGraphs(startFlowGraphs(@, SeqToSet(wdeVDeltaChannels(req))),
                        SeqToSet(wdeVDeltaChannels(req)))]

\* lines 598-600
wdeStart(n, req) ==
    [n EXCEPT !.deltaFG = startFlowGraphs(@, SeqToSet(wdeVDeltaChannels(req)))]

\* Execute (lines 484-604).  env.fail is "none", "addFlowGraphs", "consume"
\* or "loadDelete"; env.at the channel whose call failed, env.before the
\* channels the loop had attached and replayed before it.
watchDeltaChannelsTask_Execute(n, req, env) ==
    IF ~wdeChannelsLegal(req) THEN Result(n, ErrIllegalChannelLength, EmptyLog)
    ELSE IF ~wdeHasCollection(n, req) THEN Result(n, ErrCannotFindCollection, EmptyLog)
    ELSE IF env.fail = "addFlowGraphs" THEN Result(n, ErrAddFlowGraph, EmptyLog)
    ELSE
    LET all == SeqToSet(wdeVDeltaChannels(req))
        n1 == wdeAddFlowGraphs(n, req)
        log1 == [EmptyLog EXCEPT !.created = all]
        order == SetToSeq(env.before)
    IN
    IF env.fail \in {"consume", "loadDelete"}
    THEN LET n2 == wdeAttach(n1, req, env.before \cup
                             (IF env.fail = "loadDelete" THEN {env.at} ELSE {}))
             n3 == wdeRollback(n2, req)
         IN Result(n3, IF env.fail = "consume" THEN ErrConsume ELSE ErrLoadDelete,
                   [log1 EXCEPT
                      !.attach = {wdeAttachCall(req, c) : c \in env.before \cup {env.at}},
                      !.replay = [i \in 1..Len(order) |-> wdeReplayCall(req, order[i])]
                                 \o (IF env.fail = "loadDelete"
                                     THEN <<wdeReplayCall(req, env.at)>> ELSE <<>>),
                      !.closed = DOMAIN n1.deltaFG \ DOMAIN n3.deltaFG,
                      !.removed = DOMAIN n1.deltaFG \ DOMAIN n3.deltaFG])
    ELSE
    LET n2 == wdeAttach(n1, req, all)
        n3 == wdeInitReplica(n2, req)
        n4 == wdeCreateTSafe(n3, req)
        n5 == wdeQueryShards(n4, req, env)
        n6 == wdeStart(n5, req)
        full == SetToSeq(all)
    IN Result(n6, OK,
              [log1 EXCEPT !.attach = {wdeAttachCall(req, c) : c \in all},
                           !.replay = [i \in 1..Len(full) |-> wdeReplayCall(req, full[i])],
                           !.started = {c \in all : n6.deltaFG[c].started
                                                       > n5.deltaFG[c].started},
                           !.atStart = Ptr(n5)])

----------------------------------------------------------------------------
(* loadSegmentsTask.Execute (lines 632-660).                               *)

\* an init that leaves the partitions out of the streaming replica
lsInitMeta_HistoricalOnly(n, req) ==
    [n EXCEPT !.historical = addPartitions(addCollection(@, req.CollectionID),
                                           req.CollectionID, req.LoadMeta.PartitionIDs),
              !.streaming = addCollection(@, req.CollectionID)]

\* init meta (lines 638-650): the collection in both replicas, then every
\* partition of LoadMeta in the historical and the streaming replica
lsInitMeta(n, req) ==
    [n EXCEPT !.historical = addPartitions(addCollection(@, req.CollectionID),
                                           req.CollectionID, req.LoadMeta.PartitionIDs),
              !.streaming = addPartitions(addCollection(@, req.CollectionID),
                                          req.CollectionID, req.LoadMeta.PartitionIDs)]

\* loader.loadSegment(req, segmentTypeSealed) returned nil (line 652)
lsLoadSealed(n, req) == [n EXCEPT !.historical = loadSegment(@, req.Infos)]

loadSegmentsTask_Execute(n, req, env) ==
    IF req.Base = Nil THEN Result([n EXCEPT !.crashed = TRUE], Panic, EmptyLog)
    ELSE LET n1 == lsInitMeta(n, req) IN
         IF env.fail = "loadSegment" THEN Result(n1, ErrLoadSegment, EmptyLog)
         ELSE Result(lsLoadSealed(n1, req), OK, EmptyLog)

----------------------------------------------------------------------------
(* releaseCollectionTask.Execute (lines 696-723) and releaseReplica        *)
(* (lines 725-766).                                                        *)

replicaNone == 0
replicaStreaming == 1
replicaHistorical == 2

getReplica(n, replicaType) ==
    IF replicaType = replicaStreaming THEN n.streaming ELSE n.historical
setReplica(n, replicaType, r) ==
    IF replicaType = replicaStreaming THEN [n EXCEPT !.streaming = r]
    ELSE [n EXCEPT !.historical = r]

\* replica.removeCollection returned an error (lines 761-764): env.fail names
\* the call and env.at the replica
RemoveFails(env, replicaType) == env.fail = "removeCollection" /\ env.at = replicaType

\* a release that leaves the excluded segments of the collection in place
releaseReplica_KeepsExcluded(n, req, replicaType, env) ==
    LET locked == queryLock(getReplica(n, replicaType)) IN
    IF ~hasCollection(locked, req.CollectionID)
    THEN [node |-> setReplica(n, replicaType, queryUnlock(locked)),
          err |-> ErrCannotFindCollection]
    ELSE IF req.Base = Nil
    THEN [node |-> [setReplica(n, replicaType, locked) EXCEPT !.crashed = TRUE],
          err |-> Panic]
    ELSE
    LET collection == setReleaseTime(getCollectionByID(locked, req.CollectionID),
                                     Deref(req.Base).Timestamp)
        unlocked == queryUnlock(updateCollection(locked, collection))
        channels == IF replicaType = replicaStreaming THEN getVChannels(collection)
                    ELSE getVDeltaChannels(collection)
        n1 == setReplica(n, replicaType, unlocked)
        n2 == IF replicaType = replicaStreaming
              THEN [n1 EXCEPT !.dmlFG = removeFlowGraphs(@, SeqToSet(channels))]
              ELSE [n1 EXCEPT !.deltaFG = removeFlowGraphs(@, SeqToSet(channels))]
        n3 == [n2 EXCEPT !.tSafe = removeTSafes(@, channels)]
        r3 == getReplica(n3, replicaType)
    IN IF RemoveFails(env, replicaType)
       THEN [node |-> n3, err |-> ErrRemoveCollection]
       ELSE [node |-> setReplica(n3, replicaType,
                                 removeCollection(r3, req.CollectionID)),
             err |-> OK]

\* the result is the node and the error; a nil Base panics at line 736 with
\* the query lock held; a removeCollection that fails leaves the collection
releaseReplica(n, req, replicaType, env) ==
    LET locked == queryLock(getReplica(n, replicaType)) IN
    IF ~hasCollection(locked, req.CollectionID)
    THEN [node |-> setReplica(n, replicaType, queryUnlock(locked)),
          err |-> ErrCannotFindCollection]
    ELSE IF req.Base = Nil
    THEN [node |-> [setReplica(n, replicaType, locked) EXCEPT !.crashed = TRUE],
          err |-> Panic]
    ELSE
    LET collection == setReleaseTime(getCollectionByID(locked, req.CollectionID),
                                     Deref(req.Base).Timestamp)
        unlocked == queryUnlock(updateCollection(locked, collection))
        channels == IF replicaType = replicaStreaming THEN getVChannels(collection)
                    ELSE getVDeltaChannels(collection)
        n1 == setReplica(n, replicaType, unlocked)
        n2 == IF replicaType = replicaStreaming
              THEN [n1 EXCEPT !.dmlFG = removeFlowGraphs(@, SeqToSet(channels))]
              ELSE [n1 EXCEPT !.deltaFG = removeFlowGraphs(@, SeqToSet(channels))]
        n3 == [n2 EXCEPT !.tSafe = removeTSafes(@, channels)]
        r3 == removeExcludedSegments(getReplica(n3, replicaType), req.CollectionID)
    IN IF RemoveFails(env, replicaType)
       THEN [node |-> setReplica(n3, replicaType, r3), err |-> ErrRemoveCollection]
       ELSE [node |-> setReplica(n3, replicaType,
                                 removeCollection(r3, req.CollectionID)),
             err |-> OK]

\* a release of the streaming replica alone
releaseCollection_StreamingOnly(n, req, env) ==
    LET s == releaseReplica(n, req, replicaStreaming, env) IN
    IF s.err = Panic THEN Result(s.node, Panic, EmptyLog)
    ELSE IF s.err # OK THEN Result(s.node, ErrReleaseCollection, EmptyLog)
    ELSE Result([s.node EXCEPT !.queryShards =
                    queryShardReleaseCollection(@, req.CollectionID)],
                OK, EmptyLog)

\* a release that also drops the shard clusters of the collection
releaseCollection_DropsShardClusters(n, req, env) ==
    LET s == releaseReplica(n, req, replicaStreaming, env) IN
    IF s.err = Panic THEN Result(s.node, Panic, EmptyLog)
    ELSE IF s.err # OK THEN Result(s.node, ErrReleaseCollection, EmptyLog)
    ELSE
    LET h == releaseReplica(s.node, req, replicaHistorical, env) IN
    IF h.err = Panic THEN Result(h.node, Panic, EmptyLog)
    ELSE IF h.err # OK THEN Result(h.node, ErrReleaseCollection, EmptyLog)
    ELSE Result([h.node EXCEPT
                    !.queryShards = queryShardReleaseCollection(@, req.CollectionID),
                    !.shardClusters = {sc \in @ : sc[1] # req.CollectionID}],
                OK, EmptyLog)

\* a release that asks QueryShardService to release the collection although
\* the historical release failed
releaseCollection_ShardsAnyway(n, req, env) ==
    LET s == releaseReplica(n, req, replicaStreaming, env) IN
    IF s.err = Panic THEN Result(s.node, Panic, EmptyLog)
    ELSE IF s.err # OK THEN Result(s.node, ErrReleaseCollection, EmptyLog)
    ELSE
    LET h == releaseReplica(s.node, req, replicaHistorical, env)
        released == [h.node EXCEPT !.queryShards =
                        queryShardReleaseCollection(@, req.CollectionID)]
    IN IF h.err = Panic THEN Result(h.node, Panic, EmptyLog)
       ELSE IF h.err # OK THEN Result(released, ErrReleaseCollection, EmptyLog)
       ELSE Result(released, OK, EmptyLog)

releaseCollectionTask_Execute(n, req, env) ==
    LET s == releaseReplica(n, req, replicaStreaming, env) IN
    IF s.err = Panic THEN Result(s.node, Panic, EmptyLog)
    ELSE IF s.err # OK THEN Result(s.node, ErrReleaseCollection, EmptyLog)
    ELSE
    LET h == releaseReplica(s.node, req, replicaHistorical, env) IN
    IF h.err = Panic THEN Result(h.node, Panic, EmptyLog)
    ELSE IF h.err # OK THEN Result(h.node, ErrReleaseCollection, EmptyLog)
    ELSE Result([h.node EXCEPT !.queryShards =
                    queryShardReleaseCollection(@, req.CollectionID)],
                OK, EmptyLog)

----------------------------------------------------------------------------
(* releasePartitionsTask.Execute (lines 794-838).                          *)

\* a loop that removes no partition
rpRemove_Nothing(n, partitionIDs, failH, failS) == n

\* lines 814-832; failH and failS are the partitions whose removePartition
\* returned an error in the historical and in the streaming replica
RECURSIVE rpRemove(_, _, _, _)
rpRemove(n, partitionIDs, failH, failS) ==
    IF partitionIDs = <<>> THEN n
    ELSE LET id == Head(partitionIDs)
             n1 == IF hasPartition(n.historical, id) /\ id \notin failH
                   THEN [n EXCEPT !.historical = removePartition(@, id)] ELSE n
             n2 == IF hasPartition(n1.streaming, id) /\ id \notin failS
                   THEN [n1 EXCEPT !.streaming = removePartition(@, id)] ELSE n1
         IN rpRemove(n2, Tail(partitionIDs), failH, failS)

releasePartitionsTask_Execute(n, req, env) ==
    IF ~hasCollection(n.historical, req.CollectionID) THEN
        Result(n, ErrReleasePartitions, EmptyLog)
    ELSE IF ~hasCollection(n.streaming, req.CollectionID) THEN
        Result(n, ErrReleasePartitions, EmptyLog)
    ELSE Result(rpRemove(n, req.PartitionIDs, env.failH, env.failS), OK, EmptyLog)

----------------------------------------------------------------------------
(* addQueryChannelTask.Execute (lines 130-161).                            *)

\* queryShardService.getQueryChannel: the handle of the collection, made
\* on first use
getQueryChannel(qc, collectionID) ==
    IF collectionID \in DOMAIN qc THEN qc
    ELSE [c \in DOMAIN qc \cup {collectionID} |->
            IF c = collectionID THEN [consumer |-> Nil, started |-> FALSE]
            ELSE qc[c]]

addQueryChannelTask_Execute(n, req, env) ==
    LET n1 == [n EXCEPT !.queryChannels = getQueryChannel(@, req.CollectionID)] IN
    IF env.fail = "asConsumer" THEN Result(n1, ErrConsume, EmptyLog)
    ELSE Result([n1 EXCEPT !.queryChannels[req.CollectionID] =
                    [consumer |-> Ptr([channel |-> req.QueryChannel,
                                       subName |-> GenChannelSubName(req.CollectionID),
                                       position |-> req.SeekPosition]),
                     started |-> TRUE]],
                OK, EmptyLog)

----------------------------------------------------------------------------
(* The requests the coordinator sends.  Collection 1 has three dml         *)
(* channels, two of them on one physical channel; collection 2 has one.    *)

MsgBase(id, ts) == Ptr([MsgID |-> id, Timestamp |-> ts])
SomeBase == MsgBase(7, 100)

MsgPosition(ch, msgID, ts) ==
    [ChannelName |-> ch, MsgID |-> msgID, Timestamp |-> ts, MsgGroup |-> <<>>]

SegmentInfo(id, c, p, binlogs, pos) ==
    [ID |-> id, CollectionID |-> c, PartitionID |-> p, Binlogs |-> binlogs,
     DmlPosition |-> pos]

dmlA == VChan(RootCoordDml, 0, 1, 0)
dmlB == VChan(RootCoordDml, 0, 1, 1)
dmlC == VChan(RootCoordDml, 1, 1, 0)
dmlD == VChan(RootCoordDml, 0, 2, 0)
deltaA == VChan(RootCoordDelta, 0, 1, 0)
deltaB == VChan(RootCoordDelta, 0, 1, 1)
deltaD == VChan(RootCoordDelta, 0, 2, 0)

\* seek; a growing segment with binlogs, a flushed segment past the seek
\* position, a dropped segment at the seek position
InfoA ==
    [ChannelName |-> dmlA,
     SeekPosition |-> Ptr(MsgPosition(dmlA, <<1>>, 5)),
     UnflushedSegments |-> <<SegmentInfo(7, 1, 10, 1, Ptr(MsgPosition(dmlA, <<1>>, 4)))>>,
     FlushedSegments |-> <<SegmentInfo(8, 1, 10, 1, Ptr(MsgPosition(dmlA, <<1>>, 6)))>>,
     DroppedSegments |-> <<SegmentInfo(9, 1, 10, 0, Ptr(MsgPosition(dmlA, <<1>>, 5)))>>]
\* no seek position; an unflushed segment without binlogs
InfoB ==
    [ChannelName |-> dmlB,
     SeekPosition |-> Nil,
     UnflushedSegments |-> <<SegmentInfo(11, 1, 11, 0, Nil)>>,
     FlushedSegments |-> <<SegmentInfo(12, 1, 11, 1, Ptr(MsgPosition(dmlB, <<1>>, 9)))>>,
     DroppedSegments |-> <<>>]
\* a seek position with an empty message id
InfoC ==
    [ChannelName |-> dmlC,
     SeekPosition |-> Ptr(MsgPosition(dmlC, <<>>, 0)),
     UnflushedSegments |-> <<>>, FlushedSegments |-> <<>>, DroppedSegments |-> <<>>]
InfoD ==
    [ChannelName |-> dmlD,
     SeekPosition |-> Ptr(MsgPosition(dmlD, <<1>>, 5)),
     UnflushedSegments |-> <<SegmentInfo(20, 2, 20, 1, Ptr(MsgPosition(dmlD, <<1>>, 4)))>>,
     FlushedSegments |-> <<>>, DroppedSegments |-> <<>>]

LoadMeta(lType, partitionIDs) == [LoadType |-> lType, PartitionIDs |-> partitionIDs]

WatchDmRequest(base, c, partitionIDs, infos, meta) ==
    [Base |-> base, CollectionID |-> c, ReplicaID |-> 1, PartitionIDs |-> partitionIDs,
     Infos |-> infos, LoadMeta |-> meta]

WatchDmInfos ==
    [c \in CollectionIDs |->
        IF c = 1 THEN {<<>>, <<InfoA>>, <<InfoB>>, <<InfoA, InfoB>>,
                       <<InfoA, InfoC>>, <<InfoA, InfoA>>}
        ELSE {<<InfoD>>}]

WatchDmReqs ==
    {WatchDmRequest(SomeBase, 1, <<>>, infos, LoadMeta(LoadType_UnKnownType, <<>>)) :
        infos \in WatchDmInfos[1]}
    \cup {WatchDmRequest(SomeBase, 1, <<30>>, infos,
                         LoadMeta(LoadType_UnKnownType, <<30>>)) :
             infos \in {<<>>, <<InfoA>>}}
    \cup {WatchDmRequest(SomeBase, 1, <<>>, infos,
                         LoadMeta(LoadType_LoadPartition, <<30>>)) :
             infos \in {<<InfoA>>}}
    \cup {WatchDmRequest(SomeBase, 2, <<>>, infos,
                         LoadMeta(LoadType_LoadCollection, <<>>)) :
             infos \in WatchDmInfos[2]}
    \cup {WatchDmRequest(Nil, 1, <<>>, infos, LoadMeta(LoadType_UnKnownType, <<>>)) :
             infos \in {<<InfoA>>, <<InfoA, InfoA>>}}

NoFailure == [fail |-> "none", at |-> <<>>, before |-> {}]

\* the answers of the collaborators a request can meet; the loop over the
\* map channel2FlowGraph visits the channels in any order
FailuresAt(stages, channels) ==
    UNION {{[fail |-> f, at |-> c, before |-> b] :
               f \in stages, b \in SUBSET (channels \ {c})} : c \in channels}

WatchDmEnvs(req) ==
    IF ~wdmChannelsLegal(req) \/ req.Base = Nil THEN {NoFailure}
    ELSE {NoFailure,
          [fail |-> "loadSegment", at |-> <<>>, before |-> {}],
          [fail |-> "addFlowGraphs", at |-> <<>>, before |-> {}]}
         \cup FailuresAt({"attach"}, SeqToSet(wdmVChannels(req)))

ChannelInfo(ch, pos) == [ChannelName |-> ch, SeekPosition |-> pos]

WatchDeltaRequest(base, c, infos) ==
    [Base |-> base, CollectionID |-> c, ReplicaID |-> 1, Infos |-> infos]

DeltaInfoA == ChannelInfo(deltaA, Ptr(MsgPosition(dmlA, <<1>>, 5)))
DeltaInfoB == ChannelInfo(deltaB, Nil)
DeltaInfoD == ChannelInfo(deltaD, Ptr(MsgPosition(dmlD, <<1>>, 5)))

WatchDeltaReqs ==
    {WatchDeltaRequest(SomeBase, 1, infos) :
        infos \in {<<DeltaInfoA>>, <<DeltaInfoA, DeltaInfoB>>,
                   <<DeltaInfoA, DeltaInfoA>>}}
    \cup {WatchDeltaRequest(SomeBase, 2, <<DeltaInfoD>>)}

WatchDeltaEnvs(n, req) ==
    IF ~wdeChannelsLegal(req) \/ ~wdeHasCollection(n, req) THEN {NoFailure}
    ELSE {NoFailure, [fail |-> "addFlowGraphs", at |-> <<>>, before |-> {}]}
         \cup FailuresAt({"consume", "loadDelete"}, SeqToSet(wdeVDeltaChannels(req)))

SegmentLoadInfo(id, c, p) ==
    [SegmentID |-> id, PartitionID |-> p, CollectionID |-> c, BinlogPaths |-> 1]

LoadSegmentsRequest(base, c, infos, meta) ==
    [Base |-> base, CollectionID |-> c, Infos |-> infos, LoadMeta |-> meta]

LoadSegmentsReqs ==
    {LoadSegmentsRequest(SomeBase, 1, <<SegmentLoadInfo(50, 1, 10)>>,
                         LoadMeta(LoadType_LoadPartition, <<10, 12>>)),
     LoadSegmentsRequest(SomeBase, 2, <<SegmentLoadInfo(60, 2, 20)>>,
                         LoadMeta(LoadType_LoadCollection, <<20>>)),
     LoadSegmentsRequest(Nil, 1, <<SegmentLoadInfo(50, 1, 10)>>,
                         LoadMeta(LoadType_LoadPartition, <<10>>))}

LoadSegmentsEnvs(req) ==
    IF req.Base = Nil THEN {NoFailure}
    ELSE {NoFailure, [fail |-> "loadSegment", at |-> <<>>, before |-> {}]}

ReleaseCollectionRequest(base, c) == [Base |-> base, CollectionID |-> c]

ReleaseCollectionReqs ==
    {ReleaseCollectionRequest(SomeBase, c) : c \in CollectionIDs}
    \cup {ReleaseCollectionRequest(Nil, 1)}

ReleasePartitionsRequest(base, c, partitionIDs) ==
    [Base |-> base, CollectionID |-> c, PartitionIDs |-> partitionIDs]

ReleasePartitionsReqs ==
    {ReleasePartitionsRequest(SomeBase, 1, <<10, 99>>),
     ReleasePartitionsRequest(SomeBase, 2, <<20>>)}

ReleasePartitionsEnvs(req) ==
    {[failH |-> {}, failS |-> {}], [failH |-> {10}, failS |-> {}]}

AddQueryChannelReqs ==
    {[Base |-> SomeBase, CollectionID |-> c, QueryChannel |-> <<"query", c>>,
      SeekPosition |-> Nil] : c \in {1}}

AddQueryChannelEnvs ==
    {NoFailure, [fail |-> "asConsumer", at |-> <<>>, before |-> {}]}

----------------------------------------------------------------------------
(* Spec: the worker of one task queue dequeues a task and runs it.         *)

\* what the round-trip law calls the node's visible state
Visible(n) ==
    [ sCol |-> n.streaming.col, sPart |-> n.streaming.part,
      hCol |-> n.historical.col, hPart |-> n.historical.part,
      dmlFG |-> n.dmlFG, deltaFG |-> n.deltaFG, tSafe |-> n.tSafe,
      sExcl |-> n.streaming.excl, hExcl |-> n.historical.excl ]

Absent(n, c) == ~hasCollection(n.streaming, c) /\ ~hasCollection(n.historical, c)

\* a successful WatchDmChannels on an absent collection opens a round trip;
\* a ReleaseCollection of that collection right after it closes the trip
TripAfter(kind, req, res) ==
    IF kind = "WatchDmChannels" /\ res.err = OK /\ Absent(node, req.CollectionID)
    THEN Ptr([cid |-> req.CollectionID, vis |-> Visible(node), stage |-> "watched"])
    ELSE IF /\ trip # Nil
            /\ Deref(trip).stage = "watched"
            /\ kind = "ReleaseCollection"
            /\ req.CollectionID = Deref(trip).cid
    THEN Ptr([Deref(trip) EXCEPT !.stage = "released"])
    ELSE Nil

Run(kind, req, env, res) ==
    /\ node' = res.node
    /\ pre' = node
    /\ last' = [kind |-> kind, req |-> req, env |-> env, err |-> res.err,
                log |-> res.log]
    /\ trip' = TripAfter(kind, req, res)
    /\ ntasks' = ntasks + 1
    /\ UNCHANGED <<queueVars, idVars, race>>

CanRun == ntasks < MaxTasks /\ ~node.crashed

WatchDmChannels ==
    /\ CanRun
    /\ \E req \in WatchDmReqs : \E env \in WatchDmEnvs(req) :
          Run("WatchDmChannels", req, env, watchDmChannelsTask_Execute(node, req, env))

WatchDeltaChannels ==
    /\ CanRun
    /\ \E req \in WatchDeltaReqs : \E env \in WatchDeltaEnvs(node, req) :
          Run("WatchDeltaChannels", req, env,
              watchDeltaChannelsTask_Execute(node, req, env))

LoadSegments ==
    /\ CanRun
    /\ \E req \in LoadSegmentsReqs : \E env \in LoadSegmentsEnvs(req) :
          Run("LoadSegments", req, env, loadSegmentsTask_Execute(node, req, env))

ReleaseCollection ==
    /\ CanRun
    /\ \E req \in ReleaseCollectionReqs :
          Run("ReleaseCollection", req, NoFailure,
              releaseCollectionTask_Execute(node, req, NoFailure))

ReleasePartitions ==
    /\ CanRun
    /\ \E req \in ReleasePartitionsReqs : \E env \in ReleasePartitionsEnvs(req) :
          Run("ReleasePartitions", req, env,
              releasePartitionsTask_Execute(node, req, env))

AddQueryChannel ==
    /\ CanRun
    /\ \E req \in AddQueryChannelReqs : \E env \in AddQueryChannelEnvs :
          Run("AddQueryChannel", req, env, addQueryChannelTask_Execute(node, req, env))

NoTask == [kind |-> "none", req |-> <<>>, env |-> NoFailure, err |-> OK,
           log |-> EmptyLog]

\* no two tasks run side by side
RaceIdle == [w |-> "idle", r |-> "idle"]

NodeInit ==
    /\ node = EmptyNode
    /\ pre = EmptyNode
    /\ last = NoTask
    /\ trip = Nil
    /\ ntasks = 0
    /\ race = RaceIdle

\* an empty queue, no task constructed, the worker waiting for a task
QueueIdle ==
    /\ queue = <<>>
    /\ tasks = <<>>
    /\ worker = [pc |-> "idle", task |-> 0, running |-> FALSE, err |-> OK]
    /\ notified = <<>>
    /\ enq = <<>>

IDIdle ==
    /\ idreq = <<>>
    /\ idtask = <<>>

Init == NodeInit /\ QueueIdle /\ IDIdle

Next ==
    \/ WatchDmChannels
    \/ WatchDeltaChannels
    \/ LoadSegments
    \/ ReleaseCollection
    \/ ReleasePartitions
    \/ AddQueryChannel

Spec == Init /\ [][Next]_vars

----------------------------------------------------------------------------
(* Properties of Spec.                                                     *)

IsWatch == last.kind \in {"WatchDmChannels", "WatchDeltaChannels"}
Failed == last.err \notin {OK, Panic}

\* the channels the last Watch task named, and the registry they go to
Attempted == {last.req.Infos[i].ChannelName : i \in 1..Len(last.req.Infos)}
WatchRegistry(n) == IF last.kind = "WatchDmChannels" THEN n.dmlFG ELSE n.deltaFG

HoldsNoLoadedSegment ==
    \A id \in last.log.loaded : \A seg \in node.streaming.seg : seg.ID # id

\* C1 as stated: after a WatchDmChannels or WatchDeltaChannels task that ends
\* with an error, FlowGraphService holds no flow-graph for any channel the task
\* named and the streaming replica none of the growing segments it loaded.
C1_NoFlowGraphForAttempted ==
    (IsWatch /\ Failed) =>
        /\ \A v \in Attempted : v \notin DOMAIN WatchRegistry(node)
        /\ HoldsNoLoadedSegment

\* C1 amended: after a WatchDmChannels or WatchDeltaChannels task that ends
\* with an error, FlowGraphService holds no flow-graph of the task's making: a
\* channel the task named has a flow-graph afterwards only if it is the one
\* that was registered before the task began; and the streaming replica holds
\* none of the growing segments the task loaded.
C1_NoFlowGraphOfFailedTask ==
    (IsWatch /\ Failed) =>
        /\ \A v \in Attempted :
              v \in DOMAIN WatchRegistry(node) =>
                  /\ v \in DOMAIN WatchRegistry(pre)
                  /\ WatchRegistry(node)[v] = WatchRegistry(pre)[v]
        /\ HoldsNoLoadedSegment

\* C1 witness: a WatchDmChannels that loaded growing segments and created
\* flow-graphs failed at a seek.
C1_Witness ==
    /\ last.kind = "WatchDmChannels"
    /\ last.err = ErrSeek
    /\ last.log.loaded # {}
    /\ last.log.created # {}
    /\ last.log.removed = last.log.created

ChannelsOf(n, c) ==
    UNION {SeqToSet(r.col[c].vChannels) \cup SeqToSet(r.col[c].vDeltaChannels) :
              r \in {x \in {n.streaming, n.historical} : hasCollection(x, c)}}

\* C2: after a successful ReleaseCollection of C neither replica has an entry
\* for C, FlowGraphService has no dml or delta flow-graph of C, TSafeReplica
\* has no entry for a vChannel or vDeltaChannel of C, the excluded-segment set
\* of C is empty in both replicas and QueryShardService has no shard of C.
C2_ReleaseCompleteness ==
    (last.kind = "ReleaseCollection" /\ last.err = OK) =>
        LET c == last.req.CollectionID IN
        /\ ~hasCollection(node.streaming, c)
        /\ ~hasCollection(node.historical, c)
        /\ \A v \in DOMAIN node.dmlFG : node.dmlFG[v].collectionID # c
        /\ \A v \in DOMAIN node.deltaFG : node.deltaFG[v].collectionID # c
        /\ \A v \in ChannelsOf(pre, c) :
              /\ v \notin DOMAIN node.dmlFG
              /\ v \notin DOMAIN node.deltaFG
              /\ v \notin node.tSafe
        /\ \A v \in node.tSafe : v[3] # c
        /\ node.streaming.excl[c] = {}
        /\ node.historical.excl[c] = {}
        /\ \A d \in DOMAIN node.queryShards : node.queryShards[d].collectionID # c

\* C2 witness: the released collection had dml and delta flow-graphs, tSafe
\* entries, excluded segments and a query shard.
C2_Witness ==
    /\ last.kind = "ReleaseCollection"
    /\ last.err = OK
    /\ LET c == last.req.CollectionID IN
       /\ \E v \in DOMAIN pre.dmlFG : pre.dmlFG[v].collectionID = c /\ v \in pre.tSafe
       /\ \E v \in DOMAIN pre.deltaFG :
             pre.deltaFG[v].collectionID = c /\ v \in pre.tSafe
       /\ pre.streaming.excl[c] # {}
       /\ \E d \in DOMAIN pre.queryShards : pre.queryShards[d].collectionID = c

\* C3: a successful WatchDmChannels on an absent collection followed by a
\* successful ReleaseCollection of it leaves the replicas' collections and
\* partitions, the flow-graph registry, the tSafe registry and the
\* excluded-segment sets as they were before the WatchDmChannels.
C3_WatchReleaseRoundTrip ==
    (trip # Nil /\ Deref(trip).stage = "released" /\ last.err = OK) =>
        Visible(node) = Deref(trip).vis

\* C3 witness: the round trip is closed, the watch had added channels,
\* partitions and excluded segments, and another collection was loaded.
C3_Witness ==
    /\ trip # Nil
    /\ Deref(trip).stage = "released"
    /\ last.err = OK
    /\ pre.streaming.col[Deref(trip).cid].vChannels # <<>>
    /\ pre.streaming.part # Deref(trip).vis.sPart
    /\ pre.streaming.excl # Deref(trip).vis.sExcl
    /\ DOMAIN Deref(trip).vis.sCol # {}

NoDuplicates(s) == \A i, j \in 1..Len(s) : s[i] = s[j] => i = j

ChannelMapOK(vs, ps) ==
    /\ Len(vs) = Len(ps)
    /\ NoDuplicates(vs)
    /\ NoDuplicates(ps)
    /\ \A i \in 1..Len(vs) : i \in 1..Len(ps) /\ ps[i] = ToPhysicalChannel(vs[i])

\* C9: after a successful WatchDmChannels (WatchDeltaChannels) the vChannels
\* and pChannels (vDeltaChannels and pDeltaChannels) of the collection have
\* equal length and no duplicates, and pChannels[i] = physical(vChannels[i]),
\* in each replica.
C9_ChannelMapBijective ==
    (IsWatch /\ last.err = OK) =>
        \A r \in {node.streaming, node.historical} :
            LET col == r.col[last.req.CollectionID] IN
            IF last.kind = "WatchDmChannels"
            THEN ChannelMapOK(col.vChannels, col.pChannels)
            ELSE ChannelMapOK(col.vDeltaChannels, col.pDeltaChannels)

HasDuplicateChannel(req) ==
    \E i, j \in 1..Len(req.Infos) :
        i # j /\ req.Infos[i].ChannelName = req.Infos[j].ChannelName

\* C10: a WatchDmChannels or WatchDeltaChannels request that names a virtual
\* channel twice fails with an error and leaves every registry as it was.
C10_DuplicateChannelRejected ==
    (IsWatch /\ HasDuplicateChannel(last.req)) =>
        /\ last.err = ErrIllegalChannelLength
        /\ node = pre

\* C10 witness: such a request was run on a node that holds the collection
\* and its flow-graph.
C10_Witness ==
    /\ IsWatch
    /\ HasDuplicateChannel(last.req)
    /\ last.err = ErrIllegalChannelLength
    /\ hasCollection(pre.streaming, last.req.CollectionID)
    /\ DOMAIN pre.dmlFG # {}

----------------------------------------------------------------------------
(* SpecID: OnEnqueue and Timestamp of the six task variants.               *)

\* baseTask.SetID / ID (lines 91-97)
SetID(t, uid) == [t EXCEPT !.id = uid]
ID(t) == t.id

Int63n == 0..MaxRand

\* OnEnqueue of a variant: the id is the random number rnd when the request
\* or its Base is nil, and Base.MsgID otherwise
addQueryChannelTask_OnEnqueue(t, req, rnd) ==
    IF req = Nil \/ Deref(req).Base = Nil THEN SetID(t, rnd)
    ELSE SetID(t, Deref(Deref(req).Base).MsgID)
watchDmChannelsTask_OnEnqueue(t, req, rnd) ==
    IF req = Nil \/ Deref(req).Base = Nil THEN SetID(t, rnd)
    ELSE SetID(t, Deref(Deref(req).Base).MsgID)
watchDeltaChannelsTask_OnEnqueue(t, req, rnd) ==
    IF req = Nil \/ Deref(req).Base = Nil THEN SetID(t, rnd)
    ELSE SetID(t, Deref(Deref(req).Base).MsgID)
loadSegmentsTask_OnEnqueue(t, req, rnd) ==
    IF req = Nil \/ Deref(req).Base = Nil THEN SetID(t, rnd)
    ELSE SetID(t, Deref(Deref(req).Base).MsgID)
releaseCollectionTask_OnEnqueue(t, req, rnd) ==
    IF req = Nil \/ Deref(req).Base = Nil THEN SetID(t, rnd)
    ELSE SetID(t, Deref(Deref(req).Base).MsgID)
releasePartitionsTask_OnEnqueue(t, req, rnd) ==
    IF req = Nil \/ Deref(req).Base = Nil THEN SetID(t, rnd)
    ELSE SetID(t, Deref(Deref(req).Base).MsgID)

\* a Timestamp that answers with the MsgID of the Base
Timestamp_OfMsgID(req) ==
    IF Deref(req).Base = Nil THEN 0 ELSE Deref(Deref(req).Base).MsgID

\* Timestamp of a variant, for a request that is not nil: 0 when the Base is
\* nil, and Base.Timestamp otherwise
addQueryChannelTask_Timestamp(req) ==
    IF Deref(req).Base = Nil THEN 0 ELSE Deref(Deref(req).Base).Timestamp
watchDmChannelsTask_Timestamp(req) ==
    IF Deref(req).Base = Nil THEN 0 ELSE Deref(Deref(req).Base).Timestamp
watchDeltaChannelsTask_Timestamp(req) ==
    IF Deref(req).Base = Nil THEN 0 ELSE Deref(Deref(req).Base).Timestamp
loadSegmentsTask_Timestamp(req) ==
    IF Deref(req).Base = Nil THEN 0 ELSE Deref(Deref(req).Base).Timestamp
releaseCollectionTask_Timestamp(req) ==
    IF Deref(req).Base = Nil THEN 0 ELSE Deref(Deref(req).Base).Timestamp
releasePartitionsTask_Timestamp(req) ==
    IF Deref(req).Base = Nil THEN 0 ELSE Deref(Deref(req).Base).Timestamp

Variants == {"addQueryChannel", "watchDmChannels", "watchDeltaChannels",
             "loadSegments", "releaseCollection", "releasePartitions"}

OnEnqueueOf(variant, t, req, rnd) ==
    CASE variant = "addQueryChannel" -> addQueryChannelTask_OnEnqueue(t, req, rnd)
      [] variant = "watchDmChannels" -> watchDmChannelsTask_OnEnqueue(t, req, rnd)
      [] variant = "watchDeltaChannels" -> watchDeltaChannelsTask_OnEnqueue(t, req, rnd)
      [] variant = "loadSegments" -> loadSegmentsTask_OnEnqueue(t, req, rnd)
      [] variant = "releaseCollection" -> releaseCollectionTask_OnEnqueue(t, req, rnd)
      [] variant = "releasePartitions" -> releasePartitionsTask_OnEnqueue(t, req, rnd)

TimestampOf(variant, req) ==
    CASE variant = "addQueryChannel" -> addQueryChannelTask_Timestamp(req)
      [] variant = "watchDmChannels" -> watchDmChannelsTask_Timestamp(req)
      [] variant = "watchDeltaChannels" -> watchDeltaChannelsTask_Timestamp(req)
      [] variant = "loadSegments" -> loadSegmentsTask_Timestamp(req)
      [] variant = "releaseCollection" -> releaseCollectionTask_Timestamp(req)
      [] variant = "releasePartitions" -> releasePartitionsTask_Timestamp(req)

\* the requests: nil, without a Base, and with a Base whose MsgID and
\* Timestamp are zero or not
MsgIDs == {0, 5}
Timestamps == {0, 9}
IDRequests ==
    {Nil, Ptr([Base |-> Nil])}
    \cup {Ptr([Base |-> MsgBase(id, ts)]) : id \in MsgIDs, ts \in Timestamps}

\* a task as constructed: the id is Go's zero value
NewIDTask == [id |-> 0, enqueued |-> FALSE, asked |-> FALSE, ts |-> 0]

IDInit ==
    /\ idreq \in [variant : Variants, req : IDRequests]
    /\ idtask = NewIDTask

OnEnqueue ==
    /\ idreq # <<>>
    /\ ~idtask.enqueued
    /\ \E rnd \in Int63n :
          idtask' = [OnEnqueueOf(idreq.variant, idtask, idreq.req, rnd)
                        EXCEPT !.enqueued = TRUE]
    /\ UNCHANGED <<idreq, nodeVars, queueVars>>

Timestamp ==
    /\ idreq # <<>>
    /\ idreq.req # Nil
    /\ ~idtask.asked
    /\ idtask' = [idtask EXCEPT !.asked = TRUE,
                                !.ts = TimestampOf(idreq.variant, idreq.req)]
    /\ UNCHANGED <<idreq, nodeVars, queueVars>>

InitID == NodeInit /\ QueueIdle /\ IDInit

NextID == OnEnqueue \/ Timestamp

SpecID == InitID /\ [][NextID]_vars

HasBase == idreq.req # Nil /\ Deref(idreq.req).Base # Nil
TheBase == Deref(Deref(idreq.req).Base)

\* C7: OnEnqueue sets the task id to Base.MsgID when the request has a Base,
\* and otherwise to a value of the 63-bit range that is not zero.
C7_IDAssigned ==
    idtask.enqueued =>
        IF HasBase THEN ID(idtask) = TheBase.MsgID
        ELSE ID(idtask) # 0 /\ ID(idtask) >= 0

\* C8 as stated: Timestamp returns 0 if and only if the Base of the request is
\* nil, and Base.Timestamp when the Base is present.
C8_TimestampZeroIffNilBase ==
    idtask.asked =>
        /\ (idtask.ts = 0) <=> ~HasBase
        /\ HasBase => idtask.ts = TheBase.Timestamp

\* C8 amended: Timestamp returns 0 when the Base of the request is nil and
\* Base.Timestamp when the Base is present; the result is 0 exactly when the
\* Base is nil or its Timestamp is 0.
C8_TimestampOfBase ==
    idtask.asked =>
        /\ ~HasBase => idtask.ts = 0
        /\ HasBase => idtask.ts = TheBase.Timestamp
        /\ (idtask.ts = 0) <=> (~HasBase \/ TheBase.Timestamp = 0)

\* C8 witness: Timestamp was asked of a task whose Base has a Timestamp that
\* differs from its MsgID.
C8_Witness ==
    /\ idtask.asked
    /\ HasBase
    /\ TheBase.Timestamp # TheBase.MsgID
    /\ idtask.ts = 9

----------------------------------------------------------------------------
(* SpecQueue: one TaskQueue, its producers, its worker and the callers     *)
(* that wait for their tasks.                                              *)

Phases == <<"PreExecute", "Execute", "PostExecute">>

\* the error a phase returns when it fails
PhaseErr(phase) == phase \o " failed"

\* a task as constructed: done is a channel of capacity cap, ctx is live
newTask(ts, cap) ==
    [ ts |-> ts, done |-> <<>>, cap |-> cap, cancelled |-> FALSE,
      st |-> "enqueueing", in |-> "none", ran |-> <<>>, finished |-> FALSE,
      posts |-> <<>>, waiter |-> "idle", got |-> OK ]

\* a send on done goes through when a receiver waits or the buffer has room
CanSend(t) == (t.waiter = "waiting" /\ t.done = <<>>) \/ Len(t.done) < t.cap

\* a Notify that posts nothing
Notify_Dropped(t, err) == t

\* b.done <- err
Notify(t, err) ==
    IF t.waiter = "waiting" /\ t.done = <<>>
    THEN [t EXCEPT !.waiter = "returned", !.got = err, !.posts = Append(@, err)]
    ELSE [t EXCEPT !.done = Append(@, err), !.posts = Append(@, err)]

\* err := <-b.done; return err
WaitToFinish(t) ==
    [t EXCEPT !.done = Tail(@), !.got = Head(t.done), !.waiter = "returned"]

\* a queue that puts the new task at the head
addTask_First(q, t) == <<t>> \o q

\* the queue appends the task at its tail
addTask(q, t) == Append(q, t)

\* a worker that goes on to the next phase whatever the last one returned
AfterPhase_GoesOn(phase, err) ==
    IF phase = "PreExecute" THEN "Execute"
    ELSE IF phase = "Execute" THEN "PostExecute"
    ELSE "Notify"

\* where the worker goes when a phase has returned err
AfterPhase(phase, err) ==
    IF err # OK THEN "Notify"
    ELSE IF phase = "PreExecute" THEN "Execute"
    ELSE IF phase = "Execute" THEN "PostExecute"
    ELSE "Notify"

DoneCapacities == {0, 1}

\* the tasks of one queue are constructed alike: the first fixes the capacity
TaskCapacities == IF tasks = <<>> THEN DoneCapacities ELSE {tasks[1].cap}

\* a producer constructs a task, whose request carries the next timestamp,
\* and calls Enqueue, which begins with OnEnqueue
BeginEnqueue ==
    /\ Len(tasks) < MaxEnqueue
    /\ \E cap \in TaskCapacities :
          tasks' = Append(tasks, newTask(Len(tasks) + 1, cap))
    /\ UNCHANGED <<queue, worker, notified, enq, nodeVars, idVars>>

\* Enqueue puts the task into the queue and returns
EndEnqueue(t) ==
    /\ t \in DOMAIN tasks
    /\ tasks[t].st = "enqueueing"
    /\ queue' = addTask(queue, t)
    /\ enq' = Append(enq, t)
    /\ tasks' = [tasks EXCEPT ![t].st = "queued"]
    /\ UNCHANGED <<worker, notified, nodeVars, idVars>>

\* the context of a task is cancelled while the task waits in the queue
Cancel(t) ==
    /\ t \in DOMAIN tasks
    /\ tasks[t].st = "queued"
    /\ ~tasks[t].cancelled
    /\ tasks' = [tasks EXCEPT ![t].cancelled = TRUE]
    /\ UNCHANGED <<queue, worker, notified, enq, nodeVars, idVars>>

\* the worker removes the head of the queue
Dequeue ==
    /\ worker.pc = "idle"
    /\ queue # <<>>
    /\ worker' = [pc |-> "PreExecute", task |-> Head(queue), running |-> FALSE,
                  err |-> OK]
    /\ queue' = Tail(queue)
    /\ tasks' = [tasks EXCEPT ![Head(queue)].st = "dequeued"]
    /\ UNCHANGED <<notified, enq, nodeVars, idVars>>

\* the worker calls the phase it is at
StartPhase ==
    /\ worker.pc \in SeqToSet(Phases)
    /\ ~worker.running
    /\ worker' = [worker EXCEPT !.running = TRUE]
    /\ tasks' = [tasks EXCEPT ![worker.task].in = worker.pc]
    /\ UNCHANGED <<queue, notified, enq, nodeVars, idVars>>

\* the phase returns nil or an error
ReturnPhase ==
    /\ worker.pc \in SeqToSet(Phases)
    /\ worker.running
    /\ \E err \in {OK, PhaseErr(worker.pc)} :
          LET to == AfterPhase(worker.pc, err) IN
          /\ worker' = [worker EXCEPT !.pc = to, !.running = FALSE, !.err = err]
          /\ tasks' = [tasks EXCEPT
                 ![worker.task].in = "none",
                 ![worker.task].ran = Append(@, [phase |-> worker.pc, err |-> err]),
                 ![worker.task].finished = (to = "Notify")]
    /\ UNCHANGED <<queue, notified, enq, nodeVars, idVars>>

\* the worker reports the outcome of the task
WorkerNotify ==
    /\ worker.pc = "Notify"
    /\ CanSend(tasks[worker.task])
    /\ tasks' = [tasks EXCEPT ![worker.task] = Notify(@, worker.err)]
    /\ notified' = Append(notified, worker.task)
    /\ worker' = [pc |-> "idle", task |-> 0, running |-> FALSE, err |-> OK]
    /\ UNCHANGED <<queue, enq, nodeVars, idVars>>

\* the caller that enqueued the task calls WaitToFinish
BeginWait(t) ==
    /\ t \in DOMAIN tasks
    /\ tasks[t].st # "enqueueing"
    /\ tasks[t].waiter = "idle"
    /\ tasks' = [tasks EXCEPT ![t].waiter = "waiting"]
    /\ UNCHANGED <<queue, worker, notified, enq, nodeVars, idVars>>

\* the receive of WaitToFinish takes a buffered outcome
EndWait(t) ==
    /\ t \in DOMAIN tasks
    /\ tasks[t].waiter = "waiting"
    /\ tasks[t].done # <<>>
    /\ tasks' = [tasks EXCEPT ![t] = WaitToFinish(@)]
    /\ UNCHANGED <<queue, worker, notified, enq, nodeVars, idVars>>

TaskIDs == 1..MaxEnqueue

Worker == Dequeue \/ StartPhase \/ ReturnPhase \/ WorkerNotify

InitQueue == NodeInit /\ QueueIdle /\ IDIdle

NextQueue ==
    \/ BeginEnqueue
    \/ \E t \in TaskIDs : EndEnqueue(t)
    \/ \E t \in TaskIDs : Cancel(t)
    \/ Dequeue
    \/ StartPhase
    \/ ReturnPhase
    \/ WorkerNotify
    \/ \E t \in TaskIDs : BeginWait(t)
    \/ \E t \in TaskIDs : EndWait(t)

\* the worker loops for as long as the queue lives, and every caller waits
\* for the task it enqueued
SpecQueue ==
    /\ InitQueue
    /\ [][NextQueue]_vars
    /\ WF_vars(Worker)
    /\ \A t \in TaskIDs : WF_vars(BeginWait(t)) /\ WF_vars(EndWait(t))

InPhase == {t \in DOMAIN tasks : tasks[t].in # "none"}

Began(t) == tasks[t].ran # <<>> \/ tasks[t].in # "none"

IsPrefix(a, b) == Len(a) <= Len(b) /\ \A i \in 1..Len(a) : a[i] = b[i]

\* C4: at most one task of the queue is in a phase at any time; a task begins
\* its PreExecute only when every task enqueued before it has returned from
\* its last phase; and the outcomes are posted in the order of the enqueues,
\* whatever the timestamps of the requests.
C4_OneAtATimeInEnqueueOrder ==
    /\ Cardinality(InPhase) <= 1
    /\ \A i, j \in 1..Len(enq) :
          (i < j /\ Began(enq[j])) =>
              tasks[enq[i]].finished /\ tasks[enq[i]].in = "none"
    /\ IsPrefix(notified, enq)

\* C4 witness: two tasks were enqueued against the order of their
\* construction and of their timestamps, and both outcomes are posted.
C4_Witness ==
    /\ Len(enq) >= 2
    /\ Len(notified) >= 2
    /\ enq[1] > enq[2]
    /\ tasks[enq[1]].ts > tasks[enq[2]].ts

Dequeued(t) == t \in DOMAIN tasks /\ tasks[t].st = "dequeued"
Posted(t) == t \in DOMAIN tasks /\ Len(tasks[t].posts) = 1
Returned(t) == t \in DOMAIN tasks /\ tasks[t].waiter = "returned"

OutcomeOnce ==
    \A t \in DOMAIN tasks :
        /\ Len(tasks[t].posts) <= 1
        /\ tasks[t].posts # <<>> => tasks[t].st = "dequeued"
        /\ tasks[t].waiter = "returned" =>
              tasks[t].posts # <<>> /\ tasks[t].got = tasks[t].posts[1]

\* C5: a dequeued task, cancelled or not, has its outcome posted through
\* Notify in the end, and never twice; the caller in WaitToFinish returns
\* only after the post, with the posted error, and it does return.
C5_ExactlyOneOutcome ==
    /\ []OutcomeOnce
    /\ \A t \in TaskIDs : Dequeued(t) ~> (Posted(t) /\ Returned(t))

\* C5 witness: a task whose context was cancelled in the queue has its one
\* outcome posted, an error, and its caller has returned with it.
C5_Witness ==
    \E t \in DOMAIN tasks :
        /\ tasks[t].cancelled
        /\ Len(tasks[t].posts) = 1
        /\ tasks[t].waiter = "returned"
        /\ tasks[t].got # OK

PhasesRan(t) == [i \in 1..Len(tasks[t].ran) |-> tasks[t].ran[i].phase]

\* C6: the phases of a task run in the order PreExecute, Execute,
\* PostExecute; no phase runs after one that returned an error; the outcome
\* posted is the first error; and it is ok only when all three phases
\* returned nil.
C6_PhasesInOrderFirstError ==
    \A t \in DOMAIN tasks :
        /\ IsPrefix(PhasesRan(t), Phases)
        /\ \A i \in 1..Len(tasks[t].ran) :
              tasks[t].ran[i].err # OK => i = Len(tasks[t].ran)
        /\ tasks[t].in # "none" =>
              /\ Len(tasks[t].ran) < Len(Phases)
              /\ tasks[t].in = Phases[Len(tasks[t].ran) + 1]
              /\ \A i \in 1..Len(tasks[t].ran) : tasks[t].ran[i].err = OK
        /\ tasks[t].posts # <<>> =>
              /\ tasks[t].ran # <<>>
              /\ tasks[t].posts[1] = tasks[t].ran[Len(tasks[t].ran)].err
              /\ tasks[t].posts[1] = OK => Len(tasks[t].ran) = Len(Phases)

\* C6 witness: one task failed in Execute and its outcome is that error,
\* another ran its three phases and its outcome is ok.
C6_Witness ==
    /\ \E t \in DOMAIN tasks :
          /\ tasks[t].posts = <<PhaseErr("Execute")>>
          /\ PhasesRan(t) = <<"PreExecute", "Execute">>
    /\ \E t \in DOMAIN tasks :
          /\ tasks[t].posts = <<OK>>
          /\ PhasesRan(t) = Phases

----------------------------------------------------------------------------
(* Properties of Spec: errors, load metadata and the excluded segments.    *)

NeedsBase == last.kind \in {"WatchDmChannels", "LoadSegments", "ReleaseCollection"}

\* C11: a WatchDmChannels, LoadSegments or ReleaseCollection request without a
\* Base ends as an error of the task and changes nothing: no collection,
\* shard cluster or partition is added and no query lock is left held.
C11_MissingBaseSurfaced ==
    (NeedsBase /\ last.req.Base = Nil) =>
        /\ last.err \notin {OK, Panic}
        /\ node = pre
        /\ ~node.streaming.lock
        /\ ~node.historical.lock

IsWatchDelta == last.kind = "WatchDeltaChannels"

MissesCollection ==
    \/ ~hasCollection(pre.historical, last.req.CollectionID)
    \/ ~hasCollection(pre.streaming, last.req.CollectionID)

NoDeltaEffect ==
    /\ node.deltaFG = pre.deltaFG
    /\ node.tSafe = pre.tSafe
    /\ node.queryShards = pre.queryShards
    /\ last.log.created = {}
    /\ last.log.replay = <<>>

\* C12 as stated: a WatchDeltaChannels on a collection that one of the
\* replicas does not hold fails with "cannot find collection", creates no
\* delta flow-graph, adds no tSafe entry and no query shard, and never calls
\* the delete replay of the loader.
C12_AbsentCollectionCannotFind ==
    (IsWatchDelta /\ MissesCollection) =>
        /\ last.err = ErrCannotFindCollection
        /\ NoDeltaEffect

\* C12 amended: such a task fails and has none of these effects; its error is
\* "cannot find collection" when the request names no channel twice, and the
\* illegal channel length error of the earlier check when it does.
C12_AbsentCollectionFails ==
    (IsWatchDelta /\ MissesCollection) =>
        /\ last.err = (IF HasDuplicateChannel(last.req) THEN ErrIllegalChannelLength
                       ELSE ErrCannotFindCollection)
        /\ NoDeltaEffect

\* C12 witness: a request of distinct channels for an absent collection failed
\* with "cannot find collection" on a node that holds delta flow-graphs of
\* another collection.
C12_Witness ==
    /\ IsWatchDelta
    /\ MissesCollection
    /\ ~HasDuplicateChannel(last.req)
    /\ last.err = ErrCannotFindCollection
    /\ node.deltaFG # <<>>

\* the collection and the partitions of a LoadSegments request, once each
HoldsMetaOnce(r, req) ==
    /\ Cardinality({c \in DOMAIN r.col : c = req.CollectionID}) = 1
    /\ \A i \in 1..Len(req.LoadMeta.PartitionIDs) :
          Cardinality({p \in r.part :
              p = <<req.CollectionID, req.LoadMeta.PartitionIDs[i]>>}) = 1

Meta(n) == <<n.historical.col, n.historical.part, n.streaming.col, n.streaming.part>>

WatchDmDone == last.kind = "WatchDmChannels" /\ last.err = OK

ExpectedLoadType(req) ==
    IF req.LoadMeta.LoadType # LoadType_UnKnownType THEN req.LoadMeta.LoadType
    ELSE IF req.PartitionIDs # <<>> THEN LoadType_LoadPartition
    ELSE LoadType_LoadCollection

\* C14: after a successful WatchDmChannels the collection has, in both
\* replicas, the load type of LoadMeta when that is not unknown, and otherwise
\* LoadPartition when the request lists partition ids and LoadCollection when
\* it lists none.
C14_LoadTypeRecorded ==
    WatchDmDone =>
        /\ node.streaming.col[last.req.CollectionID].loadType
              = ExpectedLoadType(last.req)
        /\ node.historical.col[last.req.CollectionID].loadType
              = ExpectedLoadType(last.req)

\* C14 witness: a request with an unknown load type and a partition id was
\* run on a collection recorded as LoadCollection, and it is LoadPartition now.
C14_Witness ==
    /\ WatchDmDone
    /\ last.req.LoadMeta.LoadType = LoadType_UnKnownType
    /\ last.req.PartitionIDs # <<>>
    /\ hasCollection(pre.streaming, last.req.CollectionID)
    /\ pre.streaming.col[last.req.CollectionID].loadType = LoadType_LoadCollection
    /\ node.streaming.col[last.req.CollectionID].loadType = LoadType_LoadPartition
    /\ node.historical.col[last.req.CollectionID].loadType = LoadType_LoadPartition

EmptyWatchDm ==
    /\ last.kind = "WatchDmChannels"
    /\ last.req.Infos = <<>>
    /\ last.req.Base # Nil

\* C15: a WatchDmChannels with a Base and an empty Infos list makes no consume
\* or seek call, creates no flow-graph and no tSafe entry and leaves the
\* collection present in both replicas; it succeeds when the loader and
\* FlowGraphService, called with empty lists, return no error.
C15_EmptyInfosIsNoOpAtBus ==
    EmptyWatchDm =>
        /\ last.log.attach = {}
        /\ last.log.created = {}
        /\ last.log.started = {}
        /\ node.dmlFG = pre.dmlFG
        /\ node.tSafe = pre.tSafe
        /\ hasCollection(node.streaming, last.req.CollectionID)
        /\ hasCollection(node.historical, last.req.CollectionID)
        /\ last.env.fail = "none" => last.err = OK

\* C15 witness: such a task succeeded on a node that held neither the
\* collection nor any flow-graph, and both replicas hold the collection now.
C15_Witness ==
    /\ EmptyWatchDm
    /\ last.err = OK
    /\ Absent(pre, last.req.CollectionID)
    /\ hasCollection(node.streaming, last.req.CollectionID)
    /\ hasCollection(node.historical, last.req.CollectionID)
    /\ node.dmlFG = <<>>
    /\ node.tSafe = {}

IsReleasePartitions == last.kind = "ReleasePartitions"

ListedPartitions == SeqToSet(last.req.PartitionIDs)

\* C16: a ReleasePartitions fails exactly when the historical or the streaming
\* replica does not hold the collection; otherwise it succeeds, whatever ids
\* it lists and whichever removals return an error, and a listed partition is
\* absent afterwards from each replica where its removal did not fail.
C16_ReleasePartitionsBestEffort ==
    IsReleasePartitions =>
        /\ (last.err # OK) <=> MissesCollection
        /\ last.err \in {OK, ErrReleasePartitions}
        /\ last.err # OK => node = pre
        /\ last.err = OK =>
              \A id \in ListedPartitions :
                  /\ id \notin last.env.failH => ~hasPartition(node.historical, id)
                  /\ id \notin last.env.failS => ~hasPartition(node.streaming, id)

\* C16 witness: a ReleasePartitions succeeded although it listed an id that no
\* replica knew and an id whose removal failed in the historical replica; the
\* latter is gone from the streaming replica and still in the historical one.
C16_Witness ==
    /\ IsReleasePartitions
    /\ last.err = OK
    /\ \E id \in ListedPartitions :
          ~hasPartition(pre.historical, id) /\ ~hasPartition(pre.streaming, id)
    /\ \E id \in ListedPartitions :
          /\ id \in last.env.failH
          /\ hasPartition(pre.streaming, id)
          /\ hasPartition(node.historical, id)
          /\ ~hasPartition(node.streaming, id)

----------------------------------------------------------------------------
(* SpecCancel: Watch tasks whose context is cancelled while Execute runs.  *)
(* env.cancel names the stage that was running when ctx was cancelled.     *)
(* watchDmChannelsTask.Execute reads neither its ctx parameter nor w.ctx   *)
(* and hands it to no collaborator; watchDeltaChannelsTask.Execute hands   *)
(* w.ctx to FromDmlCPLoadDelete (line 542) and reads it nowhere else.      *)

WithCancel(env, stage) ==
    [fail |-> env.fail, at |-> env.at, before |-> env.before, cancel |-> stage]

\* the stages of a WatchDmChannels that the run described by env reaches
wdmStagesReached(env) ==
    {"loadSegment"}
    \cup (IF env.fail \notin {"loadSegment", "addFlowGraphs"} THEN {"attach"} ELSE {})
    \cup (IF env.fail = "none" THEN {"start"} ELSE {})

WatchDmCancelEnvs(req) ==
    {WithCancel(env, stage) :
        env \in WatchDmEnvs(req), stage \in {"loadSegment", "attach", "start"}}

\* a cancelled context makes FromDmlCPLoadDelete return an error; the other
\* calls of the task do not see the context
WatchDeltaCancelEnvs(n, req) ==
    {WithCancel(env, "loadDelete") :
        env \in {e \in WatchDeltaEnvs(n, req) : e.fail = "loadDelete"}}
    \cup {WithCancel(env, "start") :
        env \in {e \in WatchDeltaEnvs(n, req) : e.fail = "none"}}

CanRunCancelled == ntasks < MaxCancelTasks /\ ~node.crashed

CancelledWatchDm ==
    /\ CanRunCancelled
    /\ \E req \in WatchDmReqs : \E env \in WatchDmCancelEnvs(req) :
          /\ env.cancel \in wdmStagesReached(env)
          /\ wdmChannelsLegal(req) /\ req.Base # Nil
          /\ Run("WatchDmChannels", req, env,
                 watchDmChannelsTask_Execute(node, req, env))

CancelledWatchDelta ==
    /\ CanRunCancelled
    /\ \E req \in WatchDeltaReqs : \E env \in WatchDeltaCancelEnvs(node, req) :
          /\ wdeChannelsLegal(req) /\ wdeHasCollection(node, req)
          /\ Run("WatchDeltaChannels", req, env,
                 watchDeltaChannelsTask_Execute(node, req, env))

InitCancel == NodeInit /\ QueueIdle /\ IDIdle

NextCancel == CancelledWatchDm \/ CancelledWatchDelta

SpecCancel == InitCancel /\ [][NextCancel]_vars

\* C17: a Watch task whose context was cancelled while its Execute ran ends
\* with an error, and what its rollback undoes is undone: no flow-graph of a
\* channel it named is registered and none of the growing segments it loaded
\* is in the streaming replica; it never reports success.
C17_CancelledTaskFails ==
    IsWatch =>
        /\ last.err # OK
        /\ \A v \in Attempted : v \notin DOMAIN WatchRegistry(node)
        /\ \A id \in last.log.loaded : \A s \in node.streaming.seg : s.ID # id


----------------------------------------------------------------------------
(* Properties of Spec: the rollback of a failed attach and the excluded    *)
(* segments of WatchDmChannels.                                            *)

AttachFailed == last.kind = "WatchDmChannels" /\ last.err \in {ErrConsume, ErrSeek}

\* what the task had registered when it came to add its flow-graphs
RegisteredBeforeAttach ==
    wdmAddExcluded(wdmAddPartitions(wdmInitMeta(pre, last.req), last.req), last.req)

\* C18: when WatchDmChannels fails on a consume or seek error, every
\* flow-graph the task created is closed and then removed from the
\* registry, its growing segments are removed, and nothing else is undone:
\* the collection is in both replicas, and the partitions, shard clusters
\* and excluded segments are those the task had registered.
C18_AttachFailureRollsBackGraphsOnly ==
    AttachFailed =>
        LET req == last.req
            reg == RegisteredBeforeAttach
        IN /\ last.log.created = SeqToSet(wdmVChannels(req))
           /\ last.log.closed = last.log.created
           /\ last.log.removed = last.log.created
           /\ \A c \in last.log.created : c \notin DOMAIN node.dmlFG
           /\ \A c \in DOMAIN pre.dmlFG \ last.log.created :
                 c \in DOMAIN node.dmlFG /\ node.dmlFG[c] = pre.dmlFG[c]
           /\ \A id \in last.log.loaded : \A s \in node.streaming.seg : s.ID # id
           /\ {s \in node.streaming.seg : s.ID \notin last.log.loaded}
                 = {s \in pre.streaming.seg : s.ID \notin last.log.loaded}
           /\ hasCollection(node.streaming, req.CollectionID)
           /\ hasCollection(node.historical, req.CollectionID)
           /\ node.streaming.col = reg.streaming.col
           /\ node.historical.col = reg.historical.col
           /\ node.streaming.part = reg.streaming.part
           /\ node.historical.part = reg.historical.part
           /\ node.shardClusters = reg.shardClusters
           /\ node.streaming.excl = reg.streaming.excl
           /\ node.tSafe = pre.tSafe
           /\ node.queryShards = pre.queryShards

C18_Witness ==
    /\ AttachFailed
    /\ last.log.created # {}
    /\ last.log.loaded # {}
    /\ ~hasCollection(pre.streaming, last.req.CollectionID)
    /\ node.streaming.part # pre.streaming.part
    /\ node.shardClusters # pre.shardClusters
    /\ node.streaming.excl # pre.streaming.excl


----------------------------------------------------------------------------
(* SpecExcluded: WatchDmChannels over requests that vary the seek position *)
(* of a channel and the DmlPosition of its flushed and dropped segments.   *)

\* the seek positions a channel info can carry: none, one with an empty
\* message id, one named by the virtual and one by the physical channel
ExcludedSeekPositions(ch) ==
    {Nil, Ptr(MsgPosition(ch, <<>>, 0)), Ptr(MsgPosition(ch, <<1>>, 5)),
     Ptr(MsgPosition(ToPhysicalChannel(ch), <<1>>, 5))}

\* the checkpoints of a segment: none, before, at and after timestamp 5 on
\* the virtual channel, after it on the physical channel
ExcludedDmlPositions(ch) ==
    {Nil, Ptr(MsgPosition(ch, <<1>>, 5)), Ptr(MsgPosition(ch, <<1>>, 6)),
     Ptr(MsgPosition(ToPhysicalChannel(ch), <<1>>, 6))}

ExcludedInfo(ch, seek, flushed, dropped) ==
    [ChannelName |-> ch,
     SeekPosition |-> seek,
     UnflushedSegments |-> <<SegmentInfo(7, 1, 10, 1, Ptr(MsgPosition(ch, <<1>>, 4))),
                             SegmentInfo(11, 1, 10, 0, Nil)>>,
     FlushedSegments |-> flushed,
     DroppedSegments |-> dropped]

ExcludedFlushed(ch) ==
    {<<>>} \cup {<<SegmentInfo(8, 1, 10, 1, pos)>> : pos \in ExcludedDmlPositions(ch)}

\* a dropped segment past the seek position may come with one that has no
\* checkpoint
ExcludedDropped(ch) ==
    {<<>>} \cup {<<SegmentInfo(9, 1, 10, 0, pos)>> : pos \in ExcludedDmlPositions(ch)}
    \cup {<<SegmentInfo(9, 1, 10, 0, Ptr(MsgPosition(ch, <<1>>, 6))),
            SegmentInfo(13, 1, 10, 0, Nil)>>}

\* one channel, or two virtual channels of one physical channel
ExcludedInfos ==
    {<<ExcludedInfo(dmlA, seek, flushed, dropped)>> :
        seek \in ExcludedSeekPositions(dmlA), flushed \in ExcludedFlushed(dmlA),
        dropped \in ExcludedDropped(dmlA)}
    \cup {<<ExcludedInfo(dmlA, seekA, flushed, <<>>),
            [ChannelName |-> dmlB, SeekPosition |-> seekB, UnflushedSegments |-> <<>>,
             FlushedSegments |-> <<>>, DroppedSegments |-> <<>>]>> :
            seekA \in ExcludedSeekPositions(dmlA) \ {Nil},
            seekB \in ExcludedSeekPositions(dmlB) \ {Nil},
            flushed \in ExcludedFlushed(dmlA) \ {<<>>}}

ExcludedReqs ==
    {WatchDmRequest(SomeBase, 1, <<>>, infos, LoadMeta(LoadType_UnKnownType, <<>>)) :
        infos \in ExcludedInfos}

CanRunExcluded == ntasks < MaxExcludedTasks /\ ~node.crashed

ExcludedWatchDm ==
    /\ CanRunExcluded
    /\ \E req \in ExcludedReqs :
          \E env \in {e \in WatchDmEnvs(req) : e.fail \in {"none", "attach"}} :
              Run("WatchDmChannels", req, env,
                  watchDmChannelsTask_Execute(node, req, env))

InitExcluded == NodeInit /\ QueueIdle /\ IDIdle

NextExcluded == ExcludedWatchDm

SpecExcluded == InitExcluded /\ [][NextExcluded]_vars

\* the task came to the excluded segments (line 316)
ReachedExcluded ==
    /\ last.kind = "WatchDmChannels"
    /\ last.err \notin {ErrIllegalChannelLength, ErrLoadSegment}
    /\ last.req.Base # Nil

\* the seek-classified positions of the request
SeekPositions(req) ==
    {Deref(req.Infos[i].SeekPosition) :
        i \in {j \in 1..Len(req.Infos) : wdmSeeks(req.Infos[j])}}

LaterThanSomeSeek(req, seg) ==
    /\ seg.DmlPosition # Nil
    /\ \E pos \in SeekPositions(req) :
          /\ Deref(seg.DmlPosition).ChannelName = pos.ChannelName
          /\ Deref(seg.DmlPosition).Timestamp > pos.Timestamp

SegmentsOf(req, field) ==
    UNION {SeqToSet(req.Infos[i][field]) : i \in 1..Len(req.Infos)}

ExpectedExcluded(req) ==
    SegmentsOf(req, "UnflushedSegments")
    \cup {seg \in SegmentsOf(req, "FlushedSegments") : LaterThanSomeSeek(req, seg)}
    \cup {seg \in SegmentsOf(req, "DroppedSegments") : LaterThanSomeSeek(req, seg)}

NoRepeat(s) == \A i, j \in 1..Len(s) : s[i] = s[j] => i = j

\* C19: the entries WatchDmChannels adds to the excluded segments of the
\* collection are exactly the unflushed segments of the request and the
\* flushed and dropped segments whose checkpoint is on the channel of a
\* seek position and strictly later than it, each added once.
C19_ExcludedExactlyAddedOnce ==
    ReachedExcluded =>
        /\ node.streaming.excl[last.req.CollectionID]
              = pre.streaming.excl[last.req.CollectionID] \cup ExpectedExcluded(last.req)
        /\ UNION {SeqToSet(last.log.excluded[k]) : k \in 1..Len(last.log.excluded)}
              = ExpectedExcluded(last.req)
        /\ NoRepeat(Flatten(last.log.excluded))


WatchDmStarted == last.kind = "WatchDmChannels" /\ last.log.started # {}

\* C20: when WatchDmChannels starts its flow-graphs, every segment the task
\* handed to addExcludedSegments is already excluded, and the Start loop is
\* the task's last step: the excluded segments the flow-graphs met at Start
\* are the ones the task leaves.
C20_ExcludedBeforeStart ==
    WatchDmStarted =>
        /\ last.err = OK
        /\ last.log.started = SeqToSet(wdmVChannels(last.req))
        /\ \A c \in last.log.started :
              c \in DOMAIN node.dmlFG /\ node.dmlFG[c].started = 1
        /\ \A k \in 1..Len(last.log.excluded) :
              SeqToSet(last.log.excluded[k]) \subseteq last.log.exclAtStart
        /\ last.log.exclAtStart = node.streaming.excl[last.req.CollectionID]

C20_Witness ==
    /\ WatchDmStarted
    /\ Len(last.log.excluded) = 3
    /\ last.log.excluded[1] # <<>>
    /\ last.log.excluded[2] # <<>>
    /\ node.streaming.excl # pre.streaming.excl


----------------------------------------------------------------------------
(* SpecStart: the two Watch tasks, with tSafe watches that may fail.       *)

WithWatchFailure(channels) ==
    [fail |-> "none", at |-> <<>>, before |-> {}, nowatch |-> channels]

WatchDmStartEnvs(req) ==
    WatchDmEnvs(req) \cup
    (IF wdmChannelsLegal(req) /\ req.Base # Nil
     THEN {WithWatchFailure(f) : f \in SUBSET SeqToSet(wdmVChannels(req)) \ {{}}}
     ELSE {})

WatchDeltaStartEnvs(n, req) ==
    WatchDeltaEnvs(n, req) \cup
    (IF wdeChannelsLegal(req) /\ wdeHasCollection(n, req)
     THEN {WithWatchFailure(f) : f \in SUBSET SeqToSet(wdeVDeltaChannels(req)) \ {{}}}
     ELSE {})

CanRunStart == ntasks < MaxStartTasks /\ ~node.crashed

StartWatchDm ==
    /\ CanRunStart
    /\ \E req \in WatchDmReqs : \E env \in WatchDmStartEnvs(req) :
          Run("WatchDmChannels", req, env, watchDmChannelsTask_Execute(node, req, env))

StartWatchDelta ==
    /\ CanRunStart
    /\ \E req \in WatchDeltaReqs : \E env \in WatchDeltaStartEnvs(node, req) :
          Run("WatchDeltaChannels", req, env,
              watchDeltaChannelsTask_Execute(node, req, env))

InitStart == NodeInit /\ QueueIdle /\ IDIdle

NextStart == StartWatchDm \/ StartWatchDelta

SpecStart == InitStart /\ [][NextStart]_vars

\* the call that attaches the flow-graph of a channel of the last task
AttachCallOf(c) ==
    IF last.kind = "WatchDmChannels" THEN wdmAttachCall(last.req, c)
    ELSE wdeAttachCall(last.req, c)

\* the collection lists the channel in both replicas of node n
ListsChannel(n, c) ==
    \A r \in {n.streaming, n.historical} :
        /\ hasCollection(r, last.req.CollectionID)
        /\ LET col == getCollectionByID(r, last.req.CollectionID)
           IN IF last.kind = "WatchDmChannels"
              THEN c \in SeqToSet(col.vChannels)
              ELSE c \in SeqToSet(col.vDeltaChannels)

\* the dml channel whose query shard serves channel c of the last task
ShardChannel(c) ==
    IF last.kind = "WatchDmChannels" THEN c
    ELSE ConvertChannelName(c, RootCoordDelta, RootCoordDml)

Watching(n, c) ==
    /\ hasQueryShard(n.queryShards, ShardChannel(c))
    /\ IF last.kind = "WatchDmChannels" THEN n.queryShards[ShardChannel(c)].dmlTSafe
       ELSE n.queryShards[ShardChannel(c)].deltaTSafe

\* what the Start loop found, but for the tSafe watches
ReadyAtStart(n, c) ==
    /\ c \in DOMAIN WatchRegistry(n)
    /\ WatchRegistry(n)[c].consumer = Ptr(AttachCallOf(c))
    /\ WatchRegistry(n)[c].started = 0
    /\ ~WatchRegistry(n)[c].closed
    /\ ListsChannel(n, c)
    /\ c \in n.tSafe
    /\ hasQueryShard(n.queryShards, ShardChannel(c))

StartedOnceOrNever ==
    /\ last.err # OK =>
          /\ last.log.started = {}
          /\ last.log.atStart = Nil
          /\ \A c \in last.log.created : c \notin DOMAIN WatchRegistry(node)
    /\ last.err = OK =>
          /\ last.log.started = Attempted
          /\ last.log.created = Attempted
          /\ \A c \in Attempted :
                c \in DOMAIN WatchRegistry(node) /\ WatchRegistry(node)[c].started = 1
          /\ (Attempted # {}) => last.log.atStart # Nil

----------------------------------------------------------------------------
(* Properties of Spec: tSafe entries, the query lock and the order of a    *)
(* release.                                                                *)

FlowGraphChannels(n) == DOMAIN n.dmlFG \cup DOMAIN n.deltaFG

\* C22: between two tasks a channel has a tSafe entry if and only if a
\* flow-graph is registered for it.
C22_TSafeInLockstep ==
    ~node.crashed => node.tSafe = FlowGraphChannels(node)


IsReleaseCollection == last.kind = "ReleaseCollection"

\* C23: a release takes the replica's query lock and gives it back on every
\* path: when ReleaseCollection has ended neither replica's query lock is
\* held, and a release that finds no collection in the streaming replica
\* fails with nothing removed.
C23_QueryLockReleased ==
    IsReleaseCollection =>
        /\ ~node.streaming.lock
        /\ ~node.historical.lock
        /\ ~hasCollection(pre.streaming, last.req.CollectionID) =>
              last.err = ErrReleaseCollection /\ node = pre


----------------------------------------------------------------------------
(* SpecRelease: watches that succeed, and releases whose removeCollection  *)
(* may return an error.                                                    *)

ReleaseCollectionEnvs ==
    {NoFailure} \cup
    {[fail |-> "removeCollection", at |-> t, before |-> {}] :
        t \in {replicaStreaming, replicaHistorical}}

CanRunRelease == ntasks < MaxReleaseTasks /\ ~node.crashed

ReleaseWatchDm ==
    /\ CanRunRelease
    /\ \E req \in WatchDmReqs :
          Run("WatchDmChannels", req, NoFailure,
              watchDmChannelsTask_Execute(node, req, NoFailure))

ReleaseWatchDelta ==
    /\ CanRunRelease
    /\ \E req \in WatchDeltaReqs :
          Run("WatchDeltaChannels", req, NoFailure,
              watchDeltaChannelsTask_Execute(node, req, NoFailure))

ReleaseFailing ==
    /\ ~node.crashed
    /\ ntasks <= MaxReleaseTasks
    /\ \E req \in ReleaseCollectionReqs : \E env \in ReleaseCollectionEnvs :
          Run("ReleaseCollection", req, env,
              releaseCollectionTask_Execute(node, req, env))

InitRelease == NodeInit /\ QueueIdle /\ IDIdle

NextRelease == ReleaseWatchDm \/ ReleaseWatchDelta \/ ReleaseFailing

SpecRelease == InitRelease /\ [][NextRelease]_vars

StreamingReleaseFails ==
    \/ ~hasCollection(pre.streaming, last.req.CollectionID)
    \/ RemoveFails(last.env, replicaStreaming)

HistoricalReleaseFails ==
    \/ ~hasCollection(pre.historical, last.req.CollectionID)
    \/ RemoveFails(last.env, replicaHistorical)

\* what a release of the streaming replica takes away, but for the
\* collection entry when removeCollection is the call that failed
StreamingReleased ==
    LET c == last.req.CollectionID
        col == getCollectionByID(pre.streaming, c)
    IN /\ \A v \in SeqToSet(getVChannels(col)) :
             v \notin DOMAIN node.dmlFG /\ v \notin node.tSafe
       /\ node.streaming.excl[c] = {}
       /\ ~hasCollection(node.streaming, c)
       /\ \A p \in node.streaming.part : p[1] # c
       /\ \A seg \in node.streaming.seg : seg.CollectionID # c

\* C24: ReleaseCollection releases the streaming replica before it touches
\* the historical one.  When the streaming release fails the task fails
\* and the historical replica, the delta flow-graphs and the query shards
\* are as they were; when the historical release fails after it the task
\* fails, the streaming side stays released and the query shards are as
\* they were.
C24_StreamingBeforeHistorical ==
    (IsReleaseCollection /\ last.req.Base # Nil) =>
        /\ StreamingReleaseFails =>
              /\ last.err = ErrReleaseCollection
              /\ node.historical = pre.historical
              /\ node.deltaFG = pre.deltaFG
              /\ node.queryShards = pre.queryShards
        /\ (~StreamingReleaseFails /\ HistoricalReleaseFails) =>
              /\ last.err = ErrReleaseCollection
              /\ StreamingReleased
              /\ node.queryShards = pre.queryShards

C24_Witness ==
    /\ IsReleaseCollection
    /\ last.req.Base # Nil
    /\ ~StreamingReleaseFails
    /\ HistoricalReleaseFails
    /\ DOMAIN pre.dmlFG # {}
    /\ DOMAIN pre.deltaFG # {}
    /\ \E ch \in DOMAIN pre.queryShards :
          pre.queryShards[ch].collectionID = last.req.CollectionID


----------------------------------------------------------------------------
(* Properties of Spec: the bus calls of the Watch tasks and what a failed  *)
(* WatchDmChannels leaves.                                                 *)

\* the last task was a WatchDeltaChannels that came to create flow-graphs
DeltaCreated == IsWatchDelta /\ last.log.created # {}

AttachedChannels == {k.channel : k \in last.log.attach}
ReplayedChannels == {last.log.replay[i].channel : i \in 1..Len(last.log.replay)}

\* the seek position the request carries for a delta channel
DeltaSeekPosition(c) ==
    LET i == CHOOSE j \in 1..Len(last.req.Infos) : last.req.Infos[j].ChannelName = c
    IN last.req.Infos[i].SeekPosition

InfoOf(c) ==
    last.req.Infos[CHOOSE j \in 1..Len(last.req.Infos) : last.req.Infos[j].ChannelName = c]

NoMessageID(info) ==
    info.SeekPosition = Nil \/ Deref(info.SeekPosition).MsgID = <<>>

\* the one call channel c is to receive
ExpectedAttach(c) ==
    IF NoMessageID(InfoOf(c))
    THEN [channel |-> c, call |-> "consumeFlowGraph",
          pchannel |-> ToPhysicalChannel(c),
          subName |-> GenChannelSubName(last.req.CollectionID),
          position |-> Nil]
    ELSE [channel |-> c, call |-> "seekQueryNodeFlowGraph",
          pchannel |-> ToPhysicalChannel(c),
          subName |-> GenChannelSubName(last.req.CollectionID),
          position |-> Ptr([ChannelName |-> ToPhysicalChannel(c),
                            MsgID |-> Deref(InfoOf(c).SeekPosition).MsgID,
                            Timestamp |-> Deref(InfoOf(c).SeekPosition).Timestamp,
                            MsgGroup |-> GenChannelSubName(last.req.CollectionID)])]

\* C26: in a successful WatchDmChannels every created flow-graph receives
\* exactly one attach call: consumeFlowGraph on the physical channel when
\* the seek position is absent or has an empty message id, otherwise
\* seekQueryNodeFlowGraph with the position renamed to the physical channel
\* and grouped under the subscription name.
C26_OneAttachPerChannel ==
    WatchDmDone =>
        /\ last.log.created = Attempted
        /\ \A c \in last.log.created :
              /\ {k \in last.log.attach : k.channel = c} = {ExpectedAttach(c)}
              /\ node.dmlFG[c].consumer = Ptr(ExpectedAttach(c))
        /\ \A k \in last.log.attach : k.channel \in last.log.created

C26_Witness ==
    /\ WatchDmDone
    /\ \E c \in last.log.created : ExpectedAttach(c).call = "consumeFlowGraph"
    /\ \E c \in last.log.created : ExpectedAttach(c).call = "seekQueryNodeFlowGraph"


WatchDmFailed == last.kind = "WatchDmChannels" /\ last.err # OK

\* the channel lists and the load type of the collection in replica r, as
\* a new collection has them when the replica holds none
ChannelMeta(r, c) ==
    LET col == IF hasCollection(r, c) THEN getCollectionByID(r, c) ELSE newCollection(c)
    IN [vChannels |-> col.vChannels, pChannels |-> col.pChannels,
        loadType |-> col.loadType]

\* C27: a WatchDmChannels that ends with an error has written neither the
\* vChannels, the pChannels nor the load type of the collection in either
\* replica, and the tSafe registry and the query shards are as they were
\* before the task.
C27_FailedWatchWritesNoMeta ==
    WatchDmFailed =>
        /\ ChannelMeta(node.streaming, last.req.CollectionID)
              = ChannelMeta(pre.streaming, last.req.CollectionID)
        /\ ChannelMeta(node.historical, last.req.CollectionID)
              = ChannelMeta(pre.historical, last.req.CollectionID)
        /\ \A c \in CollectionIDs \ {last.req.CollectionID} :
              /\ hasCollection(node.streaming, c) = hasCollection(pre.streaming, c)
              /\ ChannelMeta(node.streaming, c) = ChannelMeta(pre.streaming, c)
              /\ ChannelMeta(node.historical, c) = ChannelMeta(pre.historical, c)
        /\ node.tSafe = pre.tSafe
        /\ node.queryShards = pre.queryShards

C27_Witness ==
    /\ WatchDmFailed
    /\ last.err \in {ErrConsume, ErrSeek}
    /\ last.env.before # {}
    /\ hasCollection(pre.streaming, last.req.CollectionID)
    /\ ChannelMeta(pre.streaming, last.req.CollectionID).vChannels # <<>>
    /\ SeqToSet(ChannelMeta(pre.streaming, last.req.CollectionID).vChannels) # Attempted
    /\ ChannelMeta(pre.streaming, last.req.CollectionID).loadType # wdmLoadType(last.req)


\* the shard clusters registered for a collection
ShardClustersOf(n, cid) == {sc \in n.shardClusters : sc[1] = cid}

\* C29: no task removes a shard cluster, and a ReleaseCollection that
\* succeeds leaves the registry as it found it: the shard clusters that
\* WatchDmChannels registered for the collection are still registered.
C29_ReleaseKeepsShardClusters ==
    /\ pre.shardClusters \subseteq node.shardClusters
    /\ (IsReleaseCollection /\ last.err = OK) =>
          /\ node.shardClusters = pre.shardClusters
          /\ ShardClustersOf(node, last.req.CollectionID)
                = ShardClustersOf(pre, last.req.CollectionID)

C29_Witness ==
    /\ IsReleaseCollection
    /\ last.err = OK
    /\ ~hasCollection(node.streaming, last.req.CollectionID)
    /\ ShardClustersOf(node, last.req.CollectionID) # {}


----------------------------------------------------------------------------
(* SpecRace: one WatchDmChannels and one ReleaseCollection of the same     *)
(* collection, each on a queue of its own, so that their steps interleave. *)
(* A step is a stretch of statements of one Execute; the collaborators     *)
(* answer without error.                                                   *)

\* lines 727-737 of releaseReplica: lock, look the collection up, set the
\* release time, unlock
rrLock(n, req, replicaType) ==
    LET locked == queryLock(getReplica(n, replicaType)) IN
    IF ~hasCollection(locked, req.CollectionID)
    THEN [node |-> setReplica(n, replicaType, queryUnlock(locked)),
          err |-> ErrCannotFindCollection]
    ELSE LET collection == setReleaseTime(getCollectionByID(locked, req.CollectionID),
                                          Deref(req.Base).Timestamp)
         IN [node |-> setReplica(n, replicaType,
                                 queryUnlock(updateCollection(locked, collection))),
             err |-> OK]

\* lines 740-748: the channels are read through the collection handle
rrChannels(n, req, replicaType) ==
    LET collection == getCollectionByID(getReplica(n, replicaType), req.CollectionID)
    IN IF replicaType = replicaStreaming THEN getVChannels(collection)
       ELSE getVDeltaChannels(collection)

rrRemoveFlowGraphs(n, channels, replicaType) ==
    IF replicaType = replicaStreaming
    THEN [n EXCEPT !.dmlFG = removeFlowGraphs(@, SeqToSet(channels))]
    ELSE [n EXCEPT !.deltaFG = removeFlowGraphs(@, SeqToSet(channels))]

\* lines 751-757
rrRemoveTSafes(n, channels) == [n EXCEPT !.tSafe = removeTSafes(@, channels)]

\* lines 760-764
rrRemoveCollection(n, req, replicaType) ==
    setReplica(n, replicaType,
               removeCollection(
                   removeExcludedSegments(getReplica(n, replicaType), req.CollectionID),
                   req.CollectionID))

\* lines 418-424 through the handles sCol and hCol: a collection that has
\* been removed from its replica in the meantime is written to no more
wdmInitReplicaByHandle(n, req) ==
    LET Upd(col) == setLoadType(addPChannels(addVChannels(col, wdmVChannels(req)),
                                             wdmPChannels(req)),
                                wdmLoadType(req))
        Through(r) == IF hasCollection(r, req.CollectionID)
                      THEN updateCollection(r, Upd(getCollectionByID(r, req.CollectionID)))
                      ELSE r
    IN [n EXCEPT !.streaming = Through(@), !.historical = Through(@)]

RaceWatchReqs ==
    {WatchDmRequest(SomeBase, 1, <<>>, infos, LoadMeta(LoadType_UnKnownType, <<>>)) :
        infos \in {<<InfoA>>, <<InfoA, InfoB>>}}

RaceReleaseReq == ReleaseCollectionRequest(SomeBase, 1)

\* the node before the two tasks: empty, or watching the collection already
RaceNodes ==
    {EmptyNode} \cup
    {watchDmChannelsTask_Execute(EmptyNode, req, NoFailure).node : req \in RaceWatchReqs}

InitRace ==
    /\ node \in RaceNodes
    /\ pre = node
    /\ last = NoTask
    /\ trip = Nil
    /\ ntasks = 0
    /\ \E req \in RaceWatchReqs :
          race = [w |-> "meta", r |-> "lock", req |-> req, rel |-> RaceReleaseReq,
                  replica |-> replicaStreaming, channels |-> <<>>,
                  werr |-> OK, rerr |-> OK]
    /\ QueueIdle
    /\ IDIdle

RaceStep(n, r) ==
    /\ node' = n
    /\ race' = r
    /\ UNCHANGED <<pre, last, trip, ntasks, queueVars, idVars>>

\* lines 229-370: collection, shard clusters, growing segments, partitions
\* and excluded segments
RaceWatchMeta ==
    /\ race.w = "meta"
    /\ RaceStep(wdmAddExcluded(wdmLoadGrowing(wdmAddPartitions(
                    wdmInitMeta(node, race.req), race.req), race.req), race.req),
                [race EXCEPT !.w = "graphs"])

\* lines 373-401: the flow-graphs are created and attached
RaceWatchGraphs ==
    /\ race.w = "graphs"
    /\ RaceStep(wdmAttach(wdmAddFlowGraphs(node, race.req), race.req,
                          SeqToSet(wdmVChannels(race.req))),
                [race EXCEPT !.w = "replica"])

RaceWatchReplica ==
    /\ race.w = "replica"
    /\ RaceStep(wdmInitReplicaByHandle(node, race.req), [race EXCEPT !.w = "tsafe"])

RaceWatchTSafe ==
    /\ race.w = "tsafe"
    /\ RaceStep(wdmCreateTSafe(node, race.req), [race EXCEPT !.w = "shards"])

RaceWatchShards ==
    /\ race.w = "shards"
    /\ RaceStep(wdmQueryShards(node, race.req, NoFailure), [race EXCEPT !.w = "start"])

RaceWatchStart ==
    /\ race.w = "start"
    /\ RaceStep(wdmStart(node, race.req), [race EXCEPT !.w = "done"])

RaceReleaseLock ==
    /\ race.r = "lock"
    /\ LET res == rrLock(node, race.rel, race.replica)
       IN RaceStep(res.node,
                   IF res.err = OK THEN [race EXCEPT !.r = "graphs"]
                   ELSE [race EXCEPT !.r = "done", !.rerr = ErrReleaseCollection])

RaceReleaseGraphs ==
    /\ race.r = "graphs"
    /\ LET channels == rrChannels(node, race.rel, race.replica)
       IN RaceStep(rrRemoveFlowGraphs(node, channels, race.replica),
                   [race EXCEPT !.r = "tsafe", !.channels = channels])

RaceReleaseTSafe ==
    /\ race.r = "tsafe"
    /\ RaceStep(rrRemoveTSafes(node, race.channels), [race EXCEPT !.r = "collection"])

\* after the streaming replica the historical one (line 712), then the
\* query shards (line 719)
RaceReleaseCollection ==
    /\ race.r = "collection"
    /\ RaceStep(rrRemoveCollection(node, race.rel, race.replica),
                IF race.replica = replicaStreaming
                THEN [race EXCEPT !.r = "lock", !.replica = replicaHistorical,
                                  !.channels = <<>>]
                ELSE [race EXCEPT !.r = "shards"])

RaceReleaseShards ==
    /\ race.r = "shards"
    /\ RaceStep([node EXCEPT !.queryShards =
                    queryShardReleaseCollection(@, race.rel.CollectionID)],
                [race EXCEPT !.r = "done"])

NextRace ==
    \/ RaceWatchMeta \/ RaceWatchGraphs \/ RaceWatchReplica \/ RaceWatchTSafe
    \/ RaceWatchShards \/ RaceWatchStart
    \/ RaceReleaseLock \/ RaceReleaseGraphs \/ RaceReleaseTSafe
    \/ RaceReleaseCollection \/ RaceReleaseShards

SpecRace == InitRace /\ [][NextRace]_vars

BothDone == race.w = "done" /\ race.r = "done"

\* the streaming replica holds the collection and the collection lists the
\* channel
ListedInStreaming(cid, ch) ==
    /\ hasCollection(node.streaming, cid)
    /\ ch \in SeqToSet(getVChannels(getCollectionByID(node.streaming, cid)))

\* C28: once a WatchDmChannels and a ReleaseCollection of one collection
\* that ran side by side have both ended, a DML flow-graph or a tSafe entry
\* exists for a channel only if the streaming replica still holds the
\* collection and the collection lists the channel.
C28_NoOrphanAfterRace ==
    BothDone =>
        /\ \A ch \in DOMAIN node.dmlFG :
              ListedInStreaming(node.dmlFG[ch].collectionID, ch)
        /\ \A ch \in node.tSafe : ListedInStreaming(race.req.CollectionID, ch)

=============================================================================
